---- MODULE Spec2Model ----
(***************************************************************************)
(* Metrics time-series subsystem of raspi-openclaw-ops:                    *)
(*   - the SQLite store of src/src/metricsDb.ts (two tables, raw and 1m);  *)
(*   - the sampling loop of src/src/server.ts (startMetricsSampler).       *)
(*                                                                         *)
(* Numbers.  Times are integer milliseconds.  A nullable numeric field is  *)
(* <<>> (null / NaN) or <<n>> (the number n).  A mean computed by          *)
(* compute1mRollup is the exact fraction <<num, den>> in lowest terms.     *)
(*                                                                         *)
(* Scheduling.  Node runs one callback at a time: a tick of the sampler is *)
(* suspended only at its two awaits (collectStatus, scanDmesgErrors).  The *)
(* synchronous part in between is modelled step by step (flush, rollup,    *)
(* prune) under the variable running, which holds the tick that owns the   *)
(* JavaScript thread; the wall clock may advance between any two steps.    *)
(***************************************************************************)
EXTENDS Integers, Sequences, FiniteSets, TLC

\* ------------------------------------------------------------------ bounds
MaxTicks == 2
MaxClockSteps == 3
ClockStepMs == 20000
BootBaseMs == 90000000
MaxBatch == 2
MaxRaws == 2

\* ------------------------------------------------------- program constants
MINUTE_MS == 60000
PRUNE_EVERY_MS == 10 * 60000
HOUR_MS == 3600000
DAY_MS == 24 * 3600000
DEFAULT_INTERVAL_MS == 5000
MIN_INTERVAL_MS == 1000
METRICS_MAX_SAMPLES == 12 * 60
\* rangeHours takes fractions of an hour (0.25): the model counts range
\* hours in hundredths of an hour.
HourParts == 100
PartMs == HOUR_MS \div HourParts
MIN_RANGE_HOURS == HourParts \div 4
MAX_RANGE_HOURS == 24 * 30 * HourParts
DEFAULT_RANGE_HOURS == 6 * HourParts

Null == <<>>
Some(n) == <<n>>

\* Numbers that are not finite: NaN as 0/0, Infinity as 1/0.
NaN == <<0, 0>>
PosInfinity == <<1, 0>>

\* Number.isFinite(x)
IsFinite(x) == Len(x) = 1

Max2(a, b) == IF a >= b THEN a ELSE b
Min2(a, b) == IF a <= b THEN a ELSE b

RECURSIVE Gcd(_, _)
Gcd(a, b) == IF b = 0 THEN a ELSE Gcd(b, a % b)

\* --------------------------------------------------------------- variables
VARIABLES
  now,                      \* wall clock, Date.now()
  bootMs,                   \* clock value when the process started
  METRICS_INTERVAL_MS,      \* configuration (environment): a number, <<n>> when finite
  METRICS_RAW_RETENTION_HOURS,
  METRICS_1M_RETENTION_DAYS,
  METRICS_DEFAULT_RANGE_HOURS,  \* in hundredths of an hour
  rawTier,                  \* table metrics_raw: a set of rows
  m1Tier,                   \* table metrics_1m: a set of rows
  pendingRawBatch,
  lastRollupBucketStartMs,  \* Null or <<bucket>>
  lastPruneAtMs,            \* Null or <<ms>>
  lastDmesgErrorSummary,    \* Null or <<atMs>>
  metricsHistory,
  timerArmed,               \* the setInterval timer is registered and the process lives
  timerDueMs,               \* earliest time of the next timer callback
  nextTick,                 \* number of the next timer callback
  running,                  \* tick that owns the JavaScript thread, 0 if none
  tickPc,                   \* position of each tick
  tickTimeMs,               \* status.time of each tick (taken when collectStatus starts)
  tickSample,               \* the raw row built by the tick, Null before
  tickNowMs,                \* nowMs read by the tick at the rollup step, Null before
  rollupLog,                \* history: rollups written by the scheduler, in order
  scanLog,                  \* history: the dmesg scans that returned, in order
  storeOp,                  \* history: last direct store call (store specification)
  metricsReply,             \* last reply of GET /metrics.json, Null before
  proc,                     \* the server process: its environment and how far it has got
  appLog                    \* lines written through app.log and to stderr, in order

cfgVars == <<METRICS_INTERVAL_MS, METRICS_RAW_RETENTION_HOURS, METRICS_1M_RETENTION_DAYS,
             METRICS_DEFAULT_RANGE_HOURS>>
storeVars == <<rawTier, m1Tier>>
samplerVars == <<pendingRawBatch, lastRollupBucketStartMs, lastPruneAtMs,
                 lastDmesgErrorSummary, metricsHistory>>
tickVars == <<timerArmed, timerDueMs, nextTick, running, tickPc, tickTimeMs,
              tickSample, tickNowMs, rollupLog, scanLog>>
procVars == <<proc, appLog>>
vars == <<now, bootMs, cfgVars, storeVars, samplerVars, tickVars, storeOp, metricsReply,
          procVars>>

Ticks == 1..MaxTicks

\* ------------------------------------------------------------------- rows
\* Readings a collection can produce (all optional probes failed / all read).
Payloads ==
  { [cpuUsagePctInstant |-> Null, cpuUsagePctAvg10s |-> Null, cpuTempC |-> Null,
     diskUsedPct |-> Null, memUsedPct |-> Some(20)],
    [cpuUsagePctInstant |-> Some(10), cpuUsagePctAvg10s |-> Some(30), cpuTempC |-> Some(40),
     diskUsedPct |-> Some(50), memUsedPct |-> Some(41)] }

RawRow(t, p) ==
  [timeMs |-> t, cpuUsagePctInstant |-> p.cpuUsagePctInstant,
   cpuUsagePctAvg10s |-> p.cpuUsagePctAvg10s, cpuTempC |-> p.cpuTempC,
   diskUsedPct |-> p.diskUsedPct, memUsedPct |-> p.memUsedPct]

\* ORDER BY time_ms ASC / ORDER BY bucket_start_ms ASC
RECURSIVE OrderByTimeMs(_)
OrderByTimeMs(S) ==
  IF S = {} THEN <<>>
  ELSE LET m == CHOOSE r \in S : \A q \in S : r.timeMs <= q.timeMs
       IN <<m>> \o OrderByTimeMs(S \ {m})

RECURSIVE OrderByBucketStartMs(_)
OrderByBucketStartMs(S) ==
  IF S = {} THEN <<>>
  ELSE LET m == CHOOSE r \in S : \A q \in S : r.bucketStartMs <= q.bucketStartMs
       IN <<m>> \o OrderByBucketStartMs(S \ {m})

\* ------------------------------------------------------------- metricsDb
\* mem_used_pct REAL NOT NULL: a null (NaN binds as NULL) is rejected.
RawRowRejected(row) == row.memUsedPct = Null

\* cpu_usage_pct_instant left out of the column list: the column stays NULL.
InsertRawWithoutInstant(tier, row) ==
  {r \in tier : r.timeMs # row.timeMs} \cup {[row EXCEPT !.cpuUsagePctInstant = Null]}

\* INSERT OR IGNORE: an existing row with the key wins.
InsertRawOrIgnore(tier, row) ==
  IF \E r \in tier : r.timeMs = row.timeMs THEN tier ELSE tier \cup {row}

\* INSERT OR REPLACE INTO metrics_raw: time_ms is the primary key.
InsertRaw(tier, row) == {r \in tier : r.timeMs # row.timeMs} \cup {row}

\* INSERT INTO metrics_1m on a table without the primary key: the row is added.
Insert1mWithoutKey(tier, row) == tier \cup {row}

\* INSERT OR REPLACE INTO metrics_1m: bucket_start_ms is the primary key.
Insert1m(tier, row) == {r \in tier : r.bucketStartMs # row.bucketStartMs} \cup {row}

\* WHERE time_ms >= ? AND time_ms < ?: the upper bound left out.
SelectRawRangeHalfOpen(tier, fromMs, toMs) ==
  OrderByTimeMs({r \in tier : fromMs <= r.timeMs /\ r.timeMs < toMs})

\* WHERE time_ms BETWEEN ? AND ? ORDER BY time_ms ASC
SelectRawRange(tier, fromMs, toMs) ==
  OrderByTimeMs({r \in tier : fromMs <= r.timeMs /\ r.timeMs <= toMs})

\* WHERE bucket_start_ms BETWEEN ? AND ? ORDER BY bucket_start_ms ASC
Select1mRange(tier, fromMs, toMs) ==
  OrderByBucketStartMs({r \in tier : fromMs <= r.bucketStartMs /\ r.bucketStartMs <= toMs})

\* DELETE FROM metrics_raw WHERE time_ms <= ?: the row at the cutoff goes too.
DeleteRawUpTo(tier, olderThanMs) == {r \in tier : ~(r.timeMs <= olderThanMs)}

\* DELETE FROM metrics_raw WHERE time_ms < ? / metrics_1m WHERE bucket_start_ms < ?
DeleteRawOlderThan(tier, olderThanMs) == {r \in tier : ~(r.timeMs < olderThanMs)}
Delete1mOlderThan(tier, olderThanMs) == {r \in tier : ~(r.bucketStartMs < olderThanMs)}

\* .changes of a DELETE: the number of rows the statement removed
Changes(before, after) == Cardinality(before \ after)

\* for (const r of rows) insertRaw.run(r), stopped by the first throwing row:
\* failAt = 0 means no statement throws, failAt = k means statement k throws.
RECURSIVE RunInserts(_, _, _)
RunInserts(tier, rows, n) ==
  IF n = 0 THEN tier
  ELSE InsertRaw(RunInserts(tier, rows, n - 1), rows[n])

\* First row the schema rejects, or the row at which the storage fails.
FirstThrow(rows, ioFailAt) ==
  LET bad == {k \in 1..Len(rows) : RawRowRejected(rows[k]) \/ k = ioFailAt}
  IN IF bad = {} THEN 0 ELSE CHOOSE k \in bad : \A j \in bad : k <= j

\* A loop of inserts outside a transaction keeps what ran before the throw.
NoTransaction(before, body, threw) == body

\* db.transaction(fn): BEGIN, fn, COMMIT; ROLLBACK and rethrow when fn throws.
Transaction(before, body, threw) == IF threw THEN before ELSE body

TxnInsertRawMany(tier, rows, ioFailAt) ==
  LET f == FirstThrow(rows, ioFailAt)
      ran == IF f = 0 THEN Len(rows) ELSE f - 1
  IN [threw |-> f # 0,
      tier |-> Transaction(tier, RunInserts(tier, rows, ran), f # 0)]

\* Math.trunc(ms / 60_000) * 60_000: rounds towards zero
truncToMinute(ms) ==
  IF ms >= 0 THEN (ms \div MINUTE_MS) * MINUTE_MS
  ELSE 0 - (((0 - ms) \div MINUTE_MS) * MINUTE_MS)

\* Math.floor(ms / 60_000) * 60_000
floorToMinute(ms) == (ms \div MINUTE_MS) * MINUTE_MS

\* avg over the values that are numbers; Null when there is none.
RECURSIVE SumVals(_)
SumVals(xs) == IF xs = <<>> THEN 0 ELSE Head(xs)[1] + SumVals(Tail(xs))

IsNumber(x) == x # Null

\* the average with null counted as 0 (xs.map((x) => x ?? 0))
AvgNullAsZero(xs) ==
  IF Len(xs) = 0 THEN Null
  ELSE LET s == SumVals(SelectSeq(xs, IsNumber))
           n == Len(xs)
           g == Gcd(n, s)
       IN <<s \div g, n \div g>>

Avg(xs) ==
  LET vals == SelectSeq(xs, IsNumber)
  IN IF Len(vals) = 0 THEN Null
     ELSE LET s == SumVals(vals)
              n == Len(vals)
              g == Gcd(n, s)
          IN <<s \div g, n \div g>>

\* memUsedPct left null when no row has a value (without the ?? 0)
compute1mRollupMemAbsent(bucketStartMs, raws) ==
  [bucketStartMs |-> bucketStartMs,
   cpuUsagePctAvg10s |-> Avg([i \in 1..Len(raws) |-> raws[i].cpuUsagePctAvg10s]),
   cpuTempC |-> Avg([i \in 1..Len(raws) |-> raws[i].cpuTempC]),
   diskUsedPct |-> Avg([i \in 1..Len(raws) |-> raws[i].diskUsedPct]),
   memUsedPct |-> Avg([i \in 1..Len(raws) |-> raws[i].memUsedPct])]

compute1mRollup(bucketStartMs, raws) ==
  LET memAvg == Avg([i \in 1..Len(raws) |-> raws[i].memUsedPct])
  IN [bucketStartMs |-> bucketStartMs,
      cpuUsagePctAvg10s |-> Avg([i \in 1..Len(raws) |-> raws[i].cpuUsagePctAvg10s]),
      cpuTempC |-> Avg([i \in 1..Len(raws) |-> raws[i].cpuTempC]),
      diskUsedPct |-> Avg([i \in 1..Len(raws) |-> raws[i].diskUsedPct]),
      memUsedPct |-> IF memAvg = Null THEN <<0, 1>> ELSE memAvg]


\* ------------------------------------------------------------ configuration
IntervalChoices == {Some(500), Some(40000)}
RawRetentionChoices == {0, 24}
RollupRetentionChoices == {1}

\* rows left in the database file by an earlier run of the process
StaleRaw(t0) == RawRow(t0 - 2 * HOUR_MS, CHOOSE p \in Payloads : p.cpuTempC = Null)
Stale1m(t0) == compute1mRollup(floorToMinute(t0 - 2 * DAY_MS), <<>>)

\* the interval clamped to the minimum: Math.max(1000, v) for a finite v
ClampedInterval(v) ==
  IF IsFinite(v) THEN Max2(MIN_INTERVAL_MS, v[1]) ELSE DEFAULT_INTERVAL_MS

\* const interval = Number.isFinite(v) && v >= 1000 ? v : 5000
SamplerInterval(v) ==
  IF IsFinite(v) /\ v[1] >= MIN_INTERVAL_MS THEN v[1] ELSE DEFAULT_INTERVAL_MS

\* ------------------------------------------------------------ the process
\* proc.phase follows the top-level statements of server.ts: "loaded" (the
\* configuration constants are read), "dirReady" (ensureDbDir returned),
\* "dbOpen" (openDb returned, the Fastify instance and its onRequest hook
\* exist), "sampling" (startMetricsSampler returned, the routes are
\* declared), "listening" (app.listen resolved), "exited".
\* A string is the sequence of its characters. A value of the environment or of a
\* request (a query parameter, a header) is undefined, a string, or something else
\* (an array, when a parameter is repeated).
Undefined == [type |-> "undefined"]
ArrayValue == [type |-> "object"]
StringValue(chars) == [type |-> "string", chars |-> chars]

\* process.env.STATUS_TOKEN: unset (Undefined), or a string
StatusTokenChoices ==
  {Undefined, StringValue(<<>>), StringValue(<<" ">>), StringValue(<<"t">>),
   StringValue(<<" ", "t", " ">>)}

\* A process that serves requests, STATUS_TOKEN unset:
ServingProcess ==
  [phase |-> "listening", dbPath |-> "dir", statusToken |-> Undefined,
   metricsSamplerStarted |-> TRUE, opens |-> 1, closes |-> 0, failure |-> Null,
   exitCode |-> Null, handled |-> FALSE, reply |-> Null, lastProcStat |-> Null]

\* callbacks run only while the process exists
Alive == proc.phase # "exited"

\* process.env.METRICS_INTERVAL_MS: unset, or a string
IntervalEnvChoices ==
  {Null} \cup {Some(str) : str \in {"", "abc", "Infinity", "-5000", "0", "999", "1000",
                                     "1001", "5000", "40000"}}

\* Number(str) of the strings above (Number("") is 0, Number("abc") is NaN)
NumberOfMs(str) ==
  CASE str = "" -> Some(0)
    [] str = "abc" -> NaN
    [] str = "Infinity" -> PosInfinity
    [] str = "-5000" -> Some(0 - 5000)
    [] str = "0" -> Some(0)
    [] str = "999" -> Some(999)
    [] str = "1000" -> Some(1000)
    [] str = "1001" -> Some(1001)
    [] str = "5000" -> Some(5000)
    [] str = "40000" -> Some(40000)

\* const METRICS_INTERVAL_MS = Number(process.env.METRICS_INTERVAL_MS ?? 5000)
ConfiguredInterval(env) ==
  IF env = Null THEN Some(DEFAULT_INTERVAL_MS) ELSE NumberOfMs(env[1])

\* METRICS_DB_PATH: ':memory:', a bare file name, or a path with a directory
DbPathChoices == {"memory", "bare", "dir"}

\* ensureDbDir calls mkdir only for a path with a directory part
MkdirAttempted(dbPath) == dbPath = "dir"

\* the exception caught and the evaluation of the module going on
CaughtAtTopLevel(p) ==
  [p EXCEPT !.phase = IF p.phase = "loaded" THEN "dirReady" ELSE "dbOpen"]

\* An exception that a top-level statement of the module lets escape ends
\* the evaluation of the module: Node reports it on stderr and exits with 1.
UncaughtAtTopLevel(p) == [p EXCEPT !.phase = "exited", !.exitCode = Some(1)]

\* what Node writes to stderr for the uncaught exception of a process that
\* ended that way
StderrReport(log, p) ==
  IF p.phase = "exited" THEN Append(log, [stream |-> "stderr", error |-> p.failure])
  ELSE log

InitProcess ==
  /\ now = BootBaseMs
  /\ bootMs = now
  /\ \E env \in IntervalEnvChoices : METRICS_INTERVAL_MS = ConfiguredInterval(env)
  /\ METRICS_RAW_RETENTION_HOURS = 24
  /\ METRICS_1M_RETENTION_DAYS = 1
  /\ METRICS_DEFAULT_RANGE_HOURS = DEFAULT_RANGE_HOURS
  /\ rawTier = {StaleRaw(now)}
  /\ m1Tier = {Stale1m(now)}
  /\ pendingRawBatch = <<>>
  /\ lastRollupBucketStartMs = Null
  /\ lastPruneAtMs = Null
  /\ lastDmesgErrorSummary = Null
  /\ metricsHistory = <<>>
  /\ nextTick = 1
  /\ running = 0
  /\ tickPc = [i \in Ticks |-> "idle"]
  /\ tickTimeMs = [i \in Ticks |-> 0]
  /\ tickSample = [i \in Ticks |-> Null]
  /\ tickNowMs = [i \in Ticks |-> Null]
  /\ rollupLog = <<>>
  /\ scanLog = <<>>
  /\ timerArmed = FALSE
  /\ timerDueMs = 0
  /\ storeOp = Null
  /\ metricsReply = Null
  /\ \E dbPath \in DbPathChoices, statusToken \in StatusTokenChoices :
       proc = [phase |-> "loaded", dbPath |-> dbPath, statusToken |-> statusToken,
               metricsSamplerStarted |-> FALSE, opens |-> 0, closes |-> 0,
               failure |-> Null, exitCode |-> Null, handled |-> FALSE, reply |-> Null,
               lastProcStat |-> Null]
  /\ appLog = <<>>

\* await ensureDbDir(METRICS_DB_PATH); mkdir may reject
EnsureDbDir(mkdirFails) ==
  /\ proc.phase = "loaded"
  /\ mkdirFails => MkdirAttempted(proc.dbPath)
  /\ IF mkdirFails
     THEN /\ proc' = UncaughtAtTopLevel([proc EXCEPT !.failure = Some("mkdir")])
          /\ appLog' = StderrReport(appLog, proc')
     ELSE /\ proc' = [proc EXCEPT !.phase = "dirReady"]
          /\ UNCHANGED appLog
  /\ UNCHANGED <<now, bootMs, cfgVars, metricsReply, storeVars, samplerVars, tickVars,
                 storeOp>>

\* const metricsDb = openDb({ path: METRICS_DB_PATH }); new Database, the
\* pragmas or the CREATE statements may throw
OpenDb(openFails) ==
  /\ proc.phase = "dirReady"
  /\ IF openFails
     THEN /\ proc' = UncaughtAtTopLevel([proc EXCEPT !.opens = @ + 1,
                                                    !.failure = Some("openDb")])
          /\ appLog' = StderrReport(appLog, proc')
     ELSE /\ proc' = [proc EXCEPT !.phase = "dbOpen", !.opens = @ + 1]
          /\ UNCHANGED appLog
  /\ UNCHANGED <<now, bootMs, cfgVars, metricsReply, storeVars, samplerVars, tickVars,
                 storeOp>>

\* startMetricsSampler(): if (metricsSamplerStarted) return; ...;
\* setInterval(callback, interval).unref()
StartMetricsSampler ==
  /\ proc.phase = "dbOpen"
  /\ proc' = [proc EXCEPT !.phase = "sampling", !.metricsSamplerStarted = TRUE]
  /\ IF proc.metricsSamplerStarted
     THEN UNCHANGED <<timerArmed, timerDueMs>>
     ELSE /\ timerArmed' = TRUE
          /\ timerDueMs' = now + SamplerInterval(METRICS_INTERVAL_MS)
  /\ UNCHANGED <<now, bootMs, cfgVars, metricsReply, storeVars, samplerVars, nextTick,
                 running, tickPc, tickTimeMs, tickSample, tickNowMs, rollupLog, scanLog, storeOp,
                 appLog>>

\* app.listen({ port, host }).catch((err) => { app.log.error(err); process.exit(1) })
Listen(listenFails) ==
  /\ proc.phase = "sampling"
  /\ IF listenFails
     THEN /\ proc' = [proc EXCEPT !.phase = "exited", !.exitCode = Some(1)]
          /\ appLog' = Append(appLog, [stream |-> "app.log.error", error |-> Some("listen")])
          /\ timerArmed' = FALSE
     ELSE /\ proc' = [proc EXCEPT !.phase = "listening"]
          /\ UNCHANGED <<appLog, timerArmed>>
  /\ UNCHANGED <<now, bootMs, cfgVars, metricsReply, storeVars, samplerVars, timerDueMs,
                 nextTick, running, tickPc, tickTimeMs, tickSample, tickNowMs, rollupLog, scanLog,
                 storeOp>>

IdleTicks == [i \in Ticks |-> "idle"]

InitSamplerState ==
  /\ pendingRawBatch = <<>>
  /\ lastRollupBucketStartMs = Null
  /\ lastPruneAtMs = Null
  /\ lastDmesgErrorSummary = Null
  /\ metricsHistory = <<>>
  /\ nextTick = 1
  /\ running = 0
  /\ tickPc = IdleTicks
  /\ tickTimeMs = [i \in Ticks |-> 0]
  /\ tickSample = [i \in Ticks |-> Null]
  /\ tickNowMs = [i \in Ticks |-> Null]
  /\ rollupLog = <<>>
  /\ scanLog = <<>>

Init ==
  /\ now = BootBaseMs
  /\ bootMs = now
  /\ METRICS_INTERVAL_MS \in IntervalChoices
  /\ METRICS_RAW_RETENTION_HOURS \in RawRetentionChoices
  /\ METRICS_1M_RETENTION_DAYS \in RollupRetentionChoices
  /\ \E persisted \in BOOLEAN :
       /\ rawTier = IF persisted THEN {StaleRaw(now)} ELSE {}
       /\ m1Tier = IF persisted THEN {Stale1m(now)} ELSE {}
  /\ InitSamplerState
  /\ timerArmed = TRUE
  /\ timerDueMs = now + SamplerInterval(METRICS_INTERVAL_MS)
  /\ storeOp = Null
  /\ METRICS_DEFAULT_RANGE_HOURS = DEFAULT_RANGE_HOURS
  /\ metricsReply = Null
  /\ proc = ServingProcess
  /\ appLog = <<>>

\* ------------------------------------------------------------------- clock
\* Time passes while the thread is idle or suspended in an await; the
\* synchronous part of a tick is short against ClockStepMs.
AdvanceClock ==
  /\ running = 0
  /\ now + ClockStepMs <= bootMs + MaxClockSteps * ClockStepMs
  /\ now' = now + ClockStepMs
  /\ UNCHANGED <<bootMs, cfgVars, metricsReply, procVars,
                 storeVars, samplerVars, tickVars, storeOp>>

\* ----------------------------------------------------------------- sampler
\* An exception that escapes the async callback would be an unhandled
\* rejection, which ends the process and with it the timer.
PropagateFromTick(armed) == FALSE

\* } catch { // ignore }: the exception ends the tick and nothing else.
SwallowAtTickBoundary(armed) == armed

\* positions of a tick that ended in the catch
Caught == {"collectThrew", "flushThrew", "rollupThrew", "pruneThrew"}

\* } catch { // ignore }: the handler binds no error and writes no log line.
CatchIgnore(log, i) == log

\* the log after the step of tick i that leads to tickPc'
LogAfterStep(i) ==
  appLog' = IF tickPc'[i] \in Caught THEN CatchIgnore(appLog, i) ELSE appLog

\* the history cut to its first METRICS_MAX_SAMPLES
PushHistoryKeepOldest(h, s) ==
  LET h2 == Append(h, s)
  IN IF Len(h2) > METRICS_MAX_SAMPLES THEN SubSeq(h2, 1, METRICS_MAX_SAMPLES) ELSE h2

\* metricsHistory.push(s), cut to the last METRICS_MAX_SAMPLES
PushHistory(h, s) ==
  LET h2 == Append(h, s)
  IN IF Len(h2) > METRICS_MAX_SAMPLES
     THEN SubSeq(h2, Len(h2) - METRICS_MAX_SAMPLES + 1, Len(h2))
     ELSE h2

\* the rollup placed before the flush
RollupBeforeFlush == <<"collect", "rollup", "flush", "prune", "end">>

\* Statement order of the callback body: await collectStatus and
\* addMetricsSampleFromStatus, flush raw batch, rollup, prune.
TickOrder == <<"collect", "flush", "rollup", "prune", "end">>

StepAfter(pc) ==
  LET k == CHOOSE j \in 1..Len(TickOrder) : TickOrder[j] = pc
  IN TickOrder[k + 1]

\* setInterval callback starts: collectStatus() takes status.time and suspends.
TimerFire(i) ==
  /\ Alive
  /\ timerArmed
  /\ running = 0
  /\ i = nextTick
  /\ now >= timerDueMs
  /\ tickPc' = [tickPc EXCEPT ![i] = "collect"]
  /\ tickTimeMs' = [tickTimeMs EXCEPT ![i] = now]
  /\ timerDueMs' = now + SamplerInterval(METRICS_INTERVAL_MS)
  /\ nextTick' = i + 1
  /\ UNCHANGED <<now, bootMs, cfgVars, metricsReply, procVars,
                 storeVars, samplerVars, timerArmed, running,
                 tickSample, tickNowMs, rollupLog, scanLog, storeOp>>

\* await collectStatus() rejects.
CollectThrows(i) ==
  /\ Alive
  /\ tickPc[i] = "collect"
  /\ running = 0
  /\ tickPc' = [tickPc EXCEPT ![i] = "collectThrew"]
  /\ timerArmed' = SwallowAtTickBoundary(timerArmed)
  /\ LogAfterStep(i)
  /\ UNCHANGED <<now, bootMs, cfgVars, metricsReply, proc,
                 storeVars, samplerVars, timerDueMs, nextTick,
                 running, tickTimeMs, tickSample, tickNowMs, rollupLog, scanLog, storeOp>>

\* await collectStatus() resolves; addMetricsSampleFromStatus(status).
CollectReturns(i, p) ==
  /\ Alive
  /\ tickPc[i] = "collect"
  /\ running = 0
  /\ LET row == RawRow(tickTimeMs[i], p)
     IN /\ metricsHistory' = PushHistory(metricsHistory, row)
        /\ pendingRawBatch' = Append(pendingRawBatch, row)
        /\ tickSample' = [tickSample EXCEPT ![i] = row]
  /\ tickPc' = [tickPc EXCEPT ![i] = StepAfter("collect")]
  /\ running' = i
  /\ UNCHANGED <<now, bootMs, cfgVars, metricsReply, procVars, storeVars,
                 lastRollupBucketStartMs, lastPruneAtMs,
                 lastDmesgErrorSummary, timerArmed, timerDueMs, nextTick, tickTimeMs,
                 tickNowMs, rollupLog, scanLog, storeOp>>

\* if (pendingRawBatch.length) { batch = pendingRawBatch; pendingRawBatch = [];
\*                               metricsDb.insertRawMany(batch); }
FlushRawBatch(i, ioFailAt) ==
  /\ Alive
  /\ tickPc[i] = "flush"
  /\ running = i
  /\ IF Len(pendingRawBatch) > 0
     THEN LET batch == pendingRawBatch
              res == TxnInsertRawMany(rawTier, batch, ioFailAt)
          IN /\ ioFailAt \in 0..Len(batch)
             /\ pendingRawBatch' = <<>>
             /\ rawTier' = res.tier
             /\ IF res.threw
                THEN /\ tickPc' = [tickPc EXCEPT ![i] = "flushThrew"]
                     /\ running' = 0
                     /\ timerArmed' = SwallowAtTickBoundary(timerArmed)
                ELSE /\ tickPc' = [tickPc EXCEPT ![i] = StepAfter("flush")]
                     /\ UNCHANGED <<running, timerArmed>>
     ELSE /\ ioFailAt = 0
          /\ tickPc' = [tickPc EXCEPT ![i] = StepAfter("flush")]
          /\ UNCHANGED <<pendingRawBatch, rawTier, running, timerArmed>>
  /\ LogAfterStep(i)
  /\ UNCHANGED <<now, bootMs, cfgVars, metricsReply, proc,
                 m1Tier, lastRollupBucketStartMs, lastPruneAtMs,
                 lastDmesgErrorSummary, metricsHistory, timerDueMs, nextTick, tickTimeMs,
                 tickSample, tickNowMs, rollupLog, scanLog, storeOp>>

\* the rollup made on every tick
RollupDueAlways(last, bucket) == TRUE

\* bucket > lastRollupBucketStartMs, weakened to >=
RollupDueAgain(last, bucket) == last = Null \/ bucket >= last[1]

\* if (lastRollupBucketStartMs == null || bucket > lastRollupBucketStartMs)
RollupDue(last, bucket) == last = Null \/ bucket > last[1]

\* the current minute instead of the previous one
CurrentBucket(nowMs) == floorToMinute(nowMs)

\* the minute before the previous one
OlderBucket(nowMs) == floorToMinute(nowMs - 2 * MINUTE_MS)

\* const bucket = floorToMinute(nowMs - 60_000)
RollupBucket(nowMs) == floorToMinute(nowMs - MINUTE_MS)

StoreFaults == {"none", "first", "second"}

\* the watermark written before the statements that may throw
RollupWatermarkFirst(last, bucket, fault) == Some(bucket)

\* lastRollupBucketStartMs = bucket is the statement after selectRawRange
\* and insert1mRow: it is reached only when neither has thrown.
RollupWatermark(last, bucket, fault) == IF fault = "none" THEN Some(bucket) ELSE last

\* const nowMs = Date.now(); ... selectRawRange; insert1mRow; watermark.
\* fault "first": selectRawRange throws; "second": insert1mRow throws.
RollupStep(i, fault) ==
  /\ Alive
  /\ tickPc[i] = "rollup"
  /\ running = i
  /\ tickNowMs' = [tickNowMs EXCEPT ![i] = Some(now)]
  /\ LET bucket == RollupBucket(now)
         raws == SelectRawRange(rawTier, bucket, bucket + MINUTE_MS - 1)
     IN IF RollupDue(lastRollupBucketStartMs, bucket)
        THEN IF fault = "none"
             THEN /\ m1Tier' = Insert1m(m1Tier, compute1mRollup(bucket, raws))
                  /\ lastRollupBucketStartMs'
                       = RollupWatermark(lastRollupBucketStartMs, bucket, fault)
                  /\ rollupLog' = Append(rollupLog,
                       [tick |-> i, bucket |-> bucket, nowMs |-> now, raws |-> raws])
                  /\ tickPc' = [tickPc EXCEPT ![i] = StepAfter("rollup")]
                  /\ UNCHANGED <<running, timerArmed>>
             ELSE /\ tickPc' = [tickPc EXCEPT ![i] = "rollupThrew"]
                  /\ running' = 0
                  /\ timerArmed' = SwallowAtTickBoundary(timerArmed)
                  /\ lastRollupBucketStartMs'
                       = RollupWatermark(lastRollupBucketStartMs, bucket, fault)
                  /\ UNCHANGED <<m1Tier, rollupLog>>
        ELSE /\ fault = "none"
             /\ tickPc' = [tickPc EXCEPT ![i] = StepAfter("rollup")]
             /\ UNCHANGED <<m1Tier, lastRollupBucketStartMs, rollupLog, running, timerArmed>>
  /\ LogAfterStep(i)
  /\ UNCHANGED <<now, bootMs, cfgVars, metricsReply, proc,
                 rawTier, pendingRawBatch, lastPruneAtMs,
                 lastDmesgErrorSummary, metricsHistory, timerDueMs, nextTick, tickTimeMs,
                 tickSample, scanLog, storeOp>>

\* a prune that runs once in the life of the process
PruneDueOnce(last, nowMs) == last = Null

\* if (lastPruneAtMs == null || nowMs - lastPruneAtMs > 10 * 60_000)
PruneDue(last, nowMs) == last = Null \/ nowMs - last[1] > PRUNE_EVERY_MS

\* the cutoff without the Math.max(1, ...) clamp
RawCutoffUnclamped(nowMs, hours) == nowMs - hours * HOUR_MS

\* const rawCutoff = nowMs - Math.max(1, METRICS_RAW_RETENTION_HOURS) * 3600_000
\* const m1Cutoff = nowMs - Math.max(1, METRICS_1M_RETENTION_DAYS) * 24 * 3600_000
RawCutoff(nowMs, hours) == nowMs - Max2(1, hours) * HOUR_MS
M1Cutoff(nowMs, days) == nowMs - Max2(1, days) * DAY_MS

\* pruneRaw; prune1m; lastPruneAtMs = nowMs; then await scanDmesgErrors when enabled.
\* fault "first": pruneRaw throws; "second": prune1m throws.
PruneStep(i, fault, dmesgEnabled) ==
  /\ Alive
  /\ tickPc[i] = "prune"
  /\ running = i
  /\ running' = 0
  /\ LET nowMs == tickNowMs[i][1]
         rawCutoff == RawCutoff(nowMs, METRICS_RAW_RETENTION_HOURS)
         m1Cutoff == M1Cutoff(nowMs, METRICS_1M_RETENTION_DAYS)
     IN IF PruneDue(lastPruneAtMs, nowMs)
        THEN /\ rawTier' = IF fault = "first" THEN rawTier
                           ELSE DeleteRawOlderThan(rawTier, rawCutoff)
             /\ m1Tier' = IF fault = "none" THEN Delete1mOlderThan(m1Tier, m1Cutoff)
                          ELSE m1Tier
             /\ IF fault = "none"
                THEN /\ lastPruneAtMs' = Some(nowMs)
                     /\ tickPc' = [tickPc EXCEPT
                                     ![i] = IF dmesgEnabled THEN "scan" ELSE "done"]
                     /\ UNCHANGED timerArmed
                ELSE /\ tickPc' = [tickPc EXCEPT ![i] = "pruneThrew"]
                     /\ timerArmed' = SwallowAtTickBoundary(timerArmed)
                     /\ UNCHANGED lastPruneAtMs
        ELSE /\ fault = "none"
             /\ dmesgEnabled
             /\ tickPc' = [tickPc EXCEPT ![i] = "done"]
             /\ UNCHANGED <<rawTier, m1Tier, lastPruneAtMs, timerArmed>>
  /\ LogAfterStep(i)
  /\ UNCHANGED <<now, bootMs, cfgVars, metricsReply, proc,
                 pendingRawBatch, lastRollupBucketStartMs,
                 lastDmesgErrorSummary, metricsHistory, timerDueMs, nextTick, tickTimeMs,
                 tickSample, tickNowMs, rollupLog, scanLog, storeOp>>

\* if (r?.found) lastDmesgErrorSummary = { atMs: nowMs, ... }: a scan that
\* found nothing (found false) or failed (r null) leaves the summary alone.
SummaryClearedByCleanScan(last, found, nowMs) == IF found THEN Some(nowMs) ELSE Null

SummaryAfterScan(last, found, nowMs) == IF found THEN Some(nowMs) ELSE last

\* await scanDmesgErrors(...) resolves (it never rejects); found is r?.found,
\* false for a clean scan and for a failed one (r null) alike.
ScanReturns(i, found) ==
  /\ Alive
  /\ tickPc[i] = "scan"
  /\ running = 0
  /\ lastDmesgErrorSummary' = SummaryAfterScan(lastDmesgErrorSummary, found, tickNowMs[i][1])
  /\ scanLog' = Append(scanLog, [tick |-> i, atMs |-> tickNowMs[i][1], found |-> found])
  /\ tickPc' = [tickPc EXCEPT ![i] = "done"]
  /\ UNCHANGED <<now, bootMs, cfgVars, metricsReply, procVars, storeVars, pendingRawBatch,
                 lastRollupBucketStartMs,
                 lastPruneAtMs, metricsHistory, timerArmed, timerDueMs, nextTick, running,
                 tickTimeMs, tickSample, tickNowMs, rollupLog, storeOp>>

Next ==
  \/ AdvanceClock
  \/ \E i \in Ticks : TimerFire(i)
  \/ \E i \in Ticks : CollectThrows(i)
  \/ \E i \in Ticks, p \in Payloads : CollectReturns(i, p)
  \/ \E i \in Ticks, f \in 0..MaxBatch : FlushRawBatch(i, f)
  \/ \E i \in Ticks, f \in StoreFaults : RollupStep(i, f)
  \/ \E i \in Ticks, f \in StoreFaults, e \in BOOLEAN : PruneStep(i, f, e)
  \/ \E i \in Ticks, found \in BOOLEAN : ScanReturns(i, found)

Spec == Init /\ [][Next]_vars

TypeOK ==
  /\ \A i \in Ticks : tickPc[i] \in {"idle", "collect", "flush", "rollup", "prune", "scan",
        "done", "collectThrew", "flushThrew", "rollupThrew", "pruneThrew"}
  /\ running \in 0..MaxTicks


\* ------------------------------------------- a tick late in a process run
\* The sampler two days into a run, between two ticks, with the timer due:
\* the Store holds rows whose age is around the retention horizons, and the
\* last prune was about ten minutes ago (or every prune so far has thrown).
LateBaseMs == BootBaseMs + 2 * DAY_MS + 2 * HOUR_MS
LateNowChoices == {LateBaseMs, LateBaseMs + 1}
LateRawRetentionChoices == {0 - 3, 0, 1, 2}
LateRollupRetentionChoices == {0 - 1, 0, 1, 2}

AgedRawRows(nowMs) ==
  {RawRow(nowMs - h * HOUR_MS + d, CHOOSE p \in Payloads : p.cpuTempC # Null) :
     h \in {1, 2}, d \in {0 - 1, 0, 1}}

Aged1mRows(nowMs) ==
  {compute1mRollup(floorToMinute(nowMs - k * DAY_MS) + d * MINUTE_MS, <<>>) :
     k \in {1, 2}, d \in {0 - 1, 0, 1}}

LastPruneChoices(nowMs) ==
  {Null} \cup {Some(nowMs - PRUNE_EVERY_MS + d) : d \in {0 - 1, 0, 1}}

InitLateTick ==
  /\ now \in LateNowChoices
  /\ bootMs = BootBaseMs
  /\ METRICS_INTERVAL_MS = Some(DEFAULT_INTERVAL_MS)
  /\ METRICS_RAW_RETENTION_HOURS \in LateRawRetentionChoices
  /\ METRICS_1M_RETENTION_DAYS \in LateRollupRetentionChoices
  /\ lastPruneAtMs \in LastPruneChoices(now)
  \* what the last prune left of the aged rows
  /\ rawTier = IF lastPruneAtMs = Null THEN AgedRawRows(now)
               ELSE DeleteRawOlderThan(AgedRawRows(now),
                      RawCutoff(lastPruneAtMs[1], METRICS_RAW_RETENTION_HOURS))
  /\ m1Tier = IF lastPruneAtMs = Null THEN Aged1mRows(now)
              ELSE Delete1mOlderThan(Aged1mRows(now),
                     M1Cutoff(lastPruneAtMs[1], METRICS_1M_RETENTION_DAYS))
  /\ pendingRawBatch = <<>>
  /\ lastRollupBucketStartMs = Some(RollupBucket(now) - MINUTE_MS)
  /\ lastDmesgErrorSummary = Null
  /\ metricsHistory = <<>>
  /\ nextTick = 1
  /\ running = 0
  /\ tickPc = IdleTicks
  /\ tickTimeMs = [i \in Ticks |-> 0]
  /\ tickSample = [i \in Ticks |-> Null]
  /\ tickNowMs = [i \in Ticks |-> Null]
  /\ rollupLog = <<>>
  /\ scanLog = <<>>
  /\ timerArmed = TRUE
  /\ timerDueMs = now
  /\ storeOp = Null
  /\ METRICS_DEFAULT_RANGE_HOURS = DEFAULT_RANGE_HOURS
  /\ metricsReply = Null
  /\ proc = ServingProcess
  /\ appLog = <<>>

\* the steps of the tick that is due
NextLateTick ==
  \/ \E i \in Ticks : TimerFire(i)
  \/ \E i \in Ticks : CollectThrows(i)
  \/ \E i \in Ticks, p \in Payloads : CollectReturns(i, p)
  \/ \E i \in Ticks, f \in 0..MaxBatch : FlushRawBatch(i, f)
  \/ \E i \in Ticks, f \in StoreFaults : RollupStep(i, f)
  \/ \E i \in Ticks, f \in StoreFaults, e \in BOOLEAN : PruneStep(i, f, e)
  \/ \E i \in Ticks, found \in BOOLEAN : ScanReturns(i, found)

SpecLateTick == InitLateTick /\ [][NextLateTick]_vars

\* --------------------------------------- a tick after the clock was set back
\* As InitLateTick, but the wall clock may have been stepped back since the
\* last rollup or prune (Date.now() is not monotonic): the watermarks may
\* lie at or after the minute and the instant the due tick will read.
InitSetBack ==
  /\ now \in LateNowChoices
  /\ bootMs = BootBaseMs
  /\ METRICS_INTERVAL_MS = Some(DEFAULT_INTERVAL_MS)
  /\ METRICS_RAW_RETENTION_HOURS = 1
  /\ METRICS_1M_RETENTION_DAYS = 1
  /\ lastPruneAtMs \in LastPruneChoices(now) \cup {Some(now), Some(now + MINUTE_MS)}
  /\ rawTier = AgedRawRows(now)
  /\ m1Tier = Aged1mRows(now)
  /\ pendingRawBatch = <<>>
  /\ lastRollupBucketStartMs
       \in {Null} \cup {Some(RollupBucket(now) + k * MINUTE_MS) : k \in {0 - 1, 0, 1}}
  /\ lastDmesgErrorSummary = Null
  /\ metricsHistory = <<>>
  /\ nextTick = 1
  /\ running = 0
  /\ tickPc = IdleTicks
  /\ tickTimeMs = [i \in Ticks |-> 0]
  /\ tickSample = [i \in Ticks |-> Null]
  /\ tickNowMs = [i \in Ticks |-> Null]
  /\ rollupLog = <<>>
  /\ scanLog = <<>>
  /\ timerArmed = TRUE
  /\ timerDueMs = now
  /\ storeOp = Null
  /\ METRICS_DEFAULT_RANGE_HOURS = DEFAULT_RANGE_HOURS
  /\ metricsReply = Null
  /\ proc = ServingProcess
  /\ appLog = <<>>

SpecSetBack == InitSetBack /\ [][NextLateTick]_vars

\* ------------------------------------------------- a process after restart
\* The process starts RestartOffsetMs into a minute. The database file holds
\* the raw rows of the previous minute and the rollup of that minute, written
\* by the earlier process shortly before it ended; a raw row of that minute
\* may have reached the Store after that rollup. The in-memory watermarks
\* start at null (server.ts:150-152). rollupLog starts with the rollup of the
\* earlier process, written as tick 0.
RestartOffsetMs == 10000
RestartBootMs == floorToMinute(BootBaseMs) + RestartOffsetMs
RestartBucket == floorToMinute(RestartBootMs) - MINUTE_MS

RolledUpRawChoices ==
  {{RawRow(RestartBucket + 20000, CHOOSE p \in Payloads : p.cpuTempC # Null)},
   {RawRow(RestartBucket + 20000, CHOOSE p \in Payloads : p.cpuTempC # Null),
    RawRow(RestartBucket + 40000, CHOOSE p \in Payloads : p.cpuTempC = Null)}}

LateRawRow == RawRow(RestartBucket + 59999, CHOOSE p \in Payloads : p.cpuTempC # Null)

InitRestart ==
  /\ now = RestartBootMs
  /\ bootMs = now
  /\ METRICS_INTERVAL_MS \in IntervalChoices
  /\ METRICS_RAW_RETENTION_HOURS = 24
  /\ METRICS_1M_RETENTION_DAYS = 1
  /\ \E rolledUp \in RolledUpRawChoices, late \in BOOLEAN :
       /\ rawTier = rolledUp \cup (IF late THEN {LateRawRow} ELSE {})
       /\ m1Tier = {compute1mRollup(RestartBucket, OrderByTimeMs(rolledUp))}
       /\ scanLog = <<>>
       /\ rollupLog = <<[tick |-> 0, bucket |-> RestartBucket,
                         nowMs |-> RestartBootMs - RestartOffsetMs \div 2,
                         raws |-> OrderByTimeMs(rolledUp)]>>
  /\ pendingRawBatch = <<>>
  /\ lastRollupBucketStartMs = Null
  /\ lastPruneAtMs = Null
  /\ lastDmesgErrorSummary = Null
  /\ metricsHistory = <<>>
  /\ nextTick = 1
  /\ running = 0
  /\ tickPc = IdleTicks
  /\ tickTimeMs = [i \in Ticks |-> 0]
  /\ tickSample = [i \in Ticks |-> Null]
  /\ tickNowMs = [i \in Ticks |-> Null]
  /\ timerArmed = TRUE
  /\ timerDueMs = now + SamplerInterval(METRICS_INTERVAL_MS)
  /\ storeOp = Null
  /\ METRICS_DEFAULT_RANGE_HOURS = DEFAULT_RANGE_HOURS
  /\ metricsReply = Null
  /\ proc = ServingProcess
  /\ appLog = <<>>

SpecRestart == InitRestart /\ [][Next]_vars

\* ------------------------------------------- the ring buffer after an hour
\* The sampler after a number of ticks of a run in which every tick came on
\* time and succeeded, with the timer due again: metricsHistory holds the
\* last samples (at most METRICS_MAX_SAMPLES), the Store holds their rows and
\* the rollups of the closed minutes.
HistoryIntervalChoices == {Some(DEFAULT_INTERVAL_MS), Some(40000)}
\* numbers of samples held whose span is still at most one hour
HeldChoices(interval) ==
  {n \in {0, 1, HOUR_MS \div interval + 1, METRICS_MAX_SAMPLES - 1, METRICS_MAX_SAMPLES} :
     n <= METRICS_MAX_SAMPLES /\ (n - 1) * interval <= HOUR_MS}

HistoryRows(nowMs, interval, held) ==
  [j \in 1..held |->
     RawRow(nowMs - (held - j + 1) * interval, CHOOSE p \in Payloads : p.cpuTempC # Null)]

RolledUpBuckets(rows, nowMs) ==
  IF Len(rows) = 0 THEN {}
  ELSE {floorToMinute(rows[j].timeMs) : j \in 1..Len(rows)}
         \cap {b \in Int : b <= RollupBucket(nowMs)}

InitHistory ==
  /\ now = LateBaseMs
  /\ bootMs = BootBaseMs
  /\ METRICS_INTERVAL_MS \in HistoryIntervalChoices
  /\ METRICS_RAW_RETENTION_HOURS \in RawRetentionChoices
  /\ METRICS_1M_RETENTION_DAYS = 1
  /\ \E held \in HeldChoices(SamplerInterval(METRICS_INTERVAL_MS)) :
       LET rows == HistoryRows(now, SamplerInterval(METRICS_INTERVAL_MS), held)
           lastTickMs == now - SamplerInterval(METRICS_INTERVAL_MS)
       IN /\ metricsHistory = rows
          /\ rawTier = {rows[j] : j \in 1..held}
          /\ m1Tier = {compute1mRollup(b, SelectRawRange(rawTier, b, b + MINUTE_MS - 1)) :
                         b \in RolledUpBuckets(rows, lastTickMs)}
          /\ lastRollupBucketStartMs =
               IF held = 0 THEN Null ELSE Some(RollupBucket(lastTickMs))
          /\ lastPruneAtMs = IF held = 0 THEN Null ELSE Some(lastTickMs)
  /\ pendingRawBatch = <<>>
  /\ lastDmesgErrorSummary = Null
  /\ nextTick = 1
  /\ running = 0
  /\ tickPc = IdleTicks
  /\ tickTimeMs = [i \in Ticks |-> 0]
  /\ tickSample = [i \in Ticks |-> Null]
  /\ tickNowMs = [i \in Ticks |-> Null]
  /\ rollupLog = <<>>
  /\ scanLog = <<>>
  /\ timerArmed = TRUE
  /\ timerDueMs = now
  /\ storeOp = Null
  /\ METRICS_DEFAULT_RANGE_HOURS = DEFAULT_RANGE_HOURS
  /\ metricsReply = Null
  /\ proc = ServingProcess
  /\ appLog = <<>>

SpecHistory == InitHistory /\ [][NextLateTick]_vars

\* ------------------------------------------------ the store used directly
\* Callers of openDb (the tests, the sampler) pass rows of their own making.
StoreTimes == {1000, 2000}
\* a row whose memUsedPct is NaN
NaNMemPayload ==
  [cpuUsagePctInstant |-> Some(1), cpuUsagePctAvg10s |-> Some(2), cpuTempC |-> Some(3),
   diskUsedPct |-> Some(4), memUsedPct |-> Null]
StoreRows ==
  {RawRow(t, p) : t \in StoreTimes, p \in Payloads} \cup {RawRow(2000, NaNMemPayload)}

RECURSIVE SeqsUpTo(_, _)
SeqsUpTo(S, n) ==
  IF n = 0 THEN {<<>>}
  ELSE LET shorter == SeqsUpTo(S, n - 1)
       IN shorter \cup {Append(q, x) : q \in {q2 \in shorter : Len(q2) = n - 1}, x \in S}

StoreBatches == SeqsUpTo(StoreRows, MaxBatch) \ {<<>>}

InitStore ==
  /\ now = BootBaseMs
  /\ bootMs = now
  /\ METRICS_INTERVAL_MS = Some(DEFAULT_INTERVAL_MS)
  /\ METRICS_RAW_RETENTION_HOURS = 24
  /\ METRICS_1M_RETENTION_DAYS = 1
  /\ rawTier = {}
  /\ m1Tier = {}
  /\ InitSamplerState
  /\ timerArmed = FALSE
  /\ timerDueMs = now + SamplerInterval(METRICS_INTERVAL_MS)
  /\ storeOp = Null
  /\ METRICS_DEFAULT_RANGE_HOURS = DEFAULT_RANGE_HOURS
  /\ metricsReply = Null
  /\ proc = ServingProcess
  /\ appLog = <<>>

\* insertRawRow: (row) => insertRaw.run(row); a throwing statement changes nothing.
StoreInsertRawRow(row, ioFail) ==
  LET threw == RawRowRejected(row) \/ ioFail
  IN /\ rawTier' = IF threw THEN rawTier ELSE InsertRaw(rawTier, row)
     /\ storeOp' = [op |-> "insertRawRow", rows |-> <<row>>, before |-> rawTier,
                    before1m |-> m1Tier, ioFailAt |-> IF ioFail THEN 1 ELSE 0,
                    threw |-> threw]
     /\ UNCHANGED <<now, bootMs, cfgVars, metricsReply, procVars, m1Tier, samplerVars, tickVars>>

\* insertRawMany: (rows) => txnInsertRawMany(rows)
StoreInsertRawMany(rows, ioFailAt) ==
  LET res == TxnInsertRawMany(rawTier, rows, ioFailAt)
  IN /\ ioFailAt \in 0..Len(rows)
     /\ rawTier' = res.tier
     /\ storeOp' = [op |-> "insertRawMany", rows |-> rows, before |-> rawTier,
                    before1m |-> m1Tier, ioFailAt |-> ioFailAt, threw |-> res.threw]
     /\ UNCHANGED <<now, bootMs, cfgVars, metricsReply, procVars, m1Tier, samplerVars, tickVars>>

\* rows of the rollup tier the calls below insert
StoreBuckets == {60000, 120000}
Store1mRows ==
  {compute1mRollup(b, raws) :
     b \in StoreBuckets,
     raws \in {<<>>, <<RawRow(1000, CHOOSE p \in Payloads : p.cpuTempC # Null)>>}}

\* arguments of the range selects and of the prunes
RawQueryTimes == {0, 1000, 1500, 2000, 3000}
BucketQueryTimes == {0, 60000, 90000, 120000, 180000}

\* insert1mRow: (row) => insert1m.run(row)
StoreInsert1mRow(row) ==
  /\ m1Tier' = Insert1m(m1Tier, row)
  /\ storeOp' = [op |-> "insert1mRow", row |-> row, before |-> rawTier,
                 before1m |-> m1Tier]
  /\ UNCHANGED <<now, bootMs, cfgVars, metricsReply, procVars, rawTier, samplerVars, tickVars>>

\* selectRawRange: (fromMs, toMs) => selectRawRange.all(fromMs, toMs)
StoreSelectRawRange(fromMs, toMs) ==
  /\ storeOp' = [op |-> "selectRawRange", fromMs |-> fromMs, toMs |-> toMs,
                 result |-> SelectRawRange(rawTier, fromMs, toMs),
                 before |-> rawTier, before1m |-> m1Tier]
  /\ UNCHANGED <<now, bootMs, cfgVars, metricsReply, procVars, storeVars, samplerVars, tickVars>>

\* select1mRange: (fromMs, toMs) => select1mRange.all(fromMs, toMs)
StoreSelect1mRange(fromMs, toMs) ==
  /\ storeOp' = [op |-> "select1mRange", fromMs |-> fromMs, toMs |-> toMs,
                 result |-> Select1mRange(m1Tier, fromMs, toMs),
                 before |-> rawTier, before1m |-> m1Tier]
  /\ UNCHANGED <<now, bootMs, cfgVars, metricsReply, procVars, storeVars, samplerVars, tickVars>>

\* pruneRaw: (olderThanMs) => deleteRawOlderThan.run(olderThanMs).changes
StorePruneRaw(olderThanMs) ==
  /\ rawTier' = DeleteRawOlderThan(rawTier, olderThanMs)
  /\ storeOp' = [op |-> "pruneRaw", olderThanMs |-> olderThanMs,
                 changes |-> Changes(rawTier, rawTier'),
                 before |-> rawTier, before1m |-> m1Tier]
  /\ UNCHANGED <<now, bootMs, cfgVars, metricsReply, procVars, m1Tier, samplerVars, tickVars>>

\* prune1m: (olderThanMs) => delete1mOlderThan.run(olderThanMs).changes
StorePrune1m(olderThanMs) ==
  /\ m1Tier' = Delete1mOlderThan(m1Tier, olderThanMs)
  /\ storeOp' = [op |-> "prune1m", olderThanMs |-> olderThanMs,
                 changes |-> Changes(m1Tier, m1Tier'),
                 before |-> rawTier, before1m |-> m1Tier]
  /\ UNCHANGED <<now, bootMs, cfgVars, metricsReply, procVars, rawTier, samplerVars, tickVars>>

NextStore ==
  \/ \E row \in StoreRows, ioFail \in BOOLEAN : StoreInsertRawRow(row, ioFail)
  \/ \E rows \in StoreBatches, f \in 0..MaxBatch : StoreInsertRawMany(rows, f)
  \/ \E fromMs, toMs \in RawQueryTimes : StoreSelectRawRange(fromMs, toMs)

SpecStore == InitStore /\ [][NextStore]_vars

\* single-row inserts, range selects and prunes on both tiers
NextStoreApi ==
  \/ \E row \in StoreRows, ioFail \in BOOLEAN : StoreInsertRawRow(row, ioFail)
  \/ \E row \in Store1mRows : StoreInsert1mRow(row)
  \/ \E fromMs, toMs \in RawQueryTimes : StoreSelectRawRange(fromMs, toMs)
  \/ \E fromMs, toMs \in BucketQueryTimes : StoreSelect1mRange(fromMs, toMs)
  \/ \E olderThanMs \in RawQueryTimes : StorePruneRaw(olderThanMs)
  \/ \E olderThanMs \in BucketQueryTimes : StorePrune1m(olderThanMs)

SpecStoreApi == InitStore /\ [][NextStoreApi]_vars

\* ---------------------------------------- the pure functions of metricsDb
\* Readings of the rows handed to compute1mRollup: optional fields absent,
\* zero or positive.
RollupPayloads ==
  {[cpuUsagePctInstant |-> Null, cpuUsagePctAvg10s |-> a, cpuTempC |-> t,
    diskUsedPct |-> IF a = Null THEN Some(50) ELSE Null, memUsedPct |-> m] :
     a \in {Null, Some(30)}, t \in {Null, Some(0), Some(41)}, m \in {Some(20), Some(41)}}

RollupInputs(bucketStartMs) ==
  {[i \in 1..Len(ps) |-> RawRow(bucketStartMs + i * 1000, ps[i])] :
     ps \in SeqsUpTo(RollupPayloads, MaxRaws)}

FloorInputs ==
  {0 - 60001, 0 - 60000, 0 - 59999, 0 - 1, 0, 1, 59999, 60000, 60001, 61234, 119999,
   120000, BootBaseMs - 1, BootBaseMs, BootBaseMs + 1}

\* The calls to make: the arguments are drawn here, the call is pending.
PureCalls ==
  {[op |-> "compute1mRollup", bucketStartMs |-> b, raws |-> raws, returned |-> FALSE] :
     b \in StoreBuckets, raws \in UNION {RollupInputs(b2) : b2 \in StoreBuckets}}
  \cup {[op |-> "floorToMinute", ms |-> ms, returned |-> FALSE] : ms \in FloorInputs}

InitPure ==
  /\ now = BootBaseMs
  /\ bootMs = now
  /\ METRICS_INTERVAL_MS = Some(DEFAULT_INTERVAL_MS)
  /\ METRICS_RAW_RETENTION_HOURS = 24
  /\ METRICS_1M_RETENTION_DAYS = 1
  /\ METRICS_DEFAULT_RANGE_HOURS = DEFAULT_RANGE_HOURS
  /\ rawTier = {}
  /\ m1Tier = {}
  /\ InitSamplerState
  /\ timerArmed = FALSE
  /\ timerDueMs = now + SamplerInterval(METRICS_INTERVAL_MS)
  /\ storeOp \in PureCalls
  /\ metricsReply = Null
  /\ proc = ServingProcess
  /\ appLog = <<>>

\* compute1mRollup(bucketStartMs, raws) returns
CallCompute1mRollup ==
  /\ storeOp.op = "compute1mRollup"
  /\ ~storeOp.returned
  /\ storeOp' = [op |-> "compute1mRollup", bucketStartMs |-> storeOp.bucketStartMs,
                 raws |-> storeOp.raws, returned |-> TRUE,
                 result |-> compute1mRollup(storeOp.bucketStartMs, storeOp.raws)]
  /\ UNCHANGED <<now, bootMs, cfgVars, metricsReply, procVars, storeVars, samplerVars, tickVars>>

\* floorToMinute(ms) returns; twice is floorToMinute of its result
CallFloorToMinute ==
  /\ storeOp.op = "floorToMinute"
  /\ ~storeOp.returned
  /\ storeOp' = [op |-> "floorToMinute", ms |-> storeOp.ms, returned |-> TRUE,
                 result |-> floorToMinute(storeOp.ms),
                 twice |-> floorToMinute(floorToMinute(storeOp.ms))]
  /\ UNCHANGED <<now, bootMs, cfgVars, metricsReply, procVars, storeVars, samplerVars, tickVars>>

NextPure ==
  \/ CallCompute1mRollup
  \/ CallFloorToMinute

SpecPure == InitPure /\ [][NextPure]_vars

\* ------------------------------------------------------ GET /metrics.json
\* Number(value) of the query-string values the requests below carry, in
\* hundredths (Number("") is 0, Number("abc") is NaN).
ToNumber(str) ==
  CASE str = "" -> Some(0)
    [] str = "abc" -> NaN
    [] str = "Infinity" -> PosInfinity
    [] str = "-1" -> Some(0 - HourParts)
    [] str = "0.1" -> Some(HourParts \div 10)
    [] str = "0.25" -> Some(HourParts \div 4)
    [] str = "1" -> Some(HourParts)
    [] str = "2" -> Some(2 * HourParts)
    [] str = "3" -> Some(3 * HourParts)
    [] str = "720" -> Some(720 * HourParts)
    [] str = "720.01" -> Some(720 * HourParts + 1)

\* req.query.rangeHours: absent, or one string
RangeParams ==
  {Null} \cup {Some(str) : str \in {"", "abc", "Infinity", "-1", "0.1", "0.25", "1", "2",
                                     "3", "720", "720.01"}}

\* Math.max(0.25, Math.min(24 * 30, rangeHours))
ClampRange(rangeHours) == Max2(MIN_RANGE_HOURS, Min2(MAX_RANGE_HOURS, rangeHours))

\* const rangeHours = Number(req.query?.rangeHours ?? METRICS_DEFAULT_RANGE_HOURS);
\* const hours = Number.isFinite(rangeHours) ? clamp : METRICS_DEFAULT_RANGE_HOURS;
EffectiveRangeHours(param, defaultHours) ==
  LET rangeHours == IF param = Null THEN Some(defaultHours) ELSE ToNumber(param[1])
  IN IF IsFinite(rangeHours) THEN ClampRange(rangeHours[1]) ELSE defaultHours

\* const fromMs = nowMs - hours * 3600_000 (a double in the code: no overflow);
\* subtracted in two halves to stay inside TLC's 32-bit integers.
RangeFromMs(nowMs, hours) ==
  (nowMs - (hours \div 2) * PartMs) - (hours - hours \div 2) * PartMs

\* Math.max(fromMs, nowMs - Math.max(1, METRICS_RAW_RETENTION_HOURS) * 3600_000)
RawFromMs(fromMs, nowMs, retentionHours) ==
  Max2(fromMs, nowMs - Max2(1, retentionHours) * HOUR_MS)

\* fromMs < rawFromMs ? metricsDb.select1mRange(fromMs, rawFromMs) : []
RollupRows(tier, fromMs, rawFromMs) ==
  IF fromMs < rawFromMs THEN Select1mRange(tier, fromMs, rawFromMs) ELSE <<>>

\* samples.push({...}) for a rollup row and for a raw row
RollupSample(r) ==
  [timeMs |-> r.bucketStartMs, cpuUsagePctInstant |-> Null,
   cpuUsagePctAvg10s |-> r.cpuUsagePctAvg10s, cpuTempC |-> r.cpuTempC,
   diskUsedPct |-> r.diskUsedPct, memUsedPct |-> r.memUsedPct]

RawSample(r) ==
  [timeMs |-> r.timeMs, cpuUsagePctInstant |-> r.cpuUsagePctInstant,
   cpuUsagePctAvg10s |-> r.cpuUsagePctAvg10s, cpuTempC |-> r.cpuTempC,
   diskUsedPct |-> r.diskUsedPct, memUsedPct |-> r.memUsedPct]

\* app.get('/metrics.json', ...): the handler has no await, it runs to its
\* reply in one piece. The fields after samples are history: the request,
\* the clock reading and how many items the rollup tier gave.
MetricsJsonReply(param) ==
  LET hours == EffectiveRangeHours(param, METRICS_DEFAULT_RANGE_HOURS)
      nowMs == now
      fromMs == RangeFromMs(nowMs, hours)
      rawFromMs == RawFromMs(fromMs, nowMs, METRICS_RAW_RETENTION_HOURS)
      rawRows == SelectRawRange(rawTier, rawFromMs, nowMs)
      rollupRows == RollupRows(m1Tier, fromMs, rawFromMs)
  IN [rangeHours |-> hours,
      samples |-> [i \in 1..Len(rollupRows) |-> RollupSample(rollupRows[i])]
                    \o [i \in 1..Len(rawRows) |-> RawSample(rawRows[i])],
      param |-> param, nowMs |-> nowMs, rollupCount |-> Len(rollupRows)]

\* a handler that could start in the middle of another callback
HandlerMayStartAnytime(owner) == TRUE

\* The handler as a callback of the event loop: it starts only when no other
\* callback holds the thread (the tick gives the thread up at its awaits
\* only, and the handler of '/metrics.json' has none).
HandlerMayStart(owner) == owner = 0

MetricsJson(param) ==
  /\ Alive
  /\ HandlerMayStart(running)
  /\ metricsReply' = MetricsJsonReply(param)
  /\ UNCHANGED <<now, bootMs, cfgVars, storeVars, samplerVars, tickVars, storeOp, procVars>>

\* A Store with rows around the tier boundary, at QueryBaseMs or 1 ms later.
QueryBaseMs == 600000000
QueryNowChoices == {QueryBaseMs, QueryBaseMs + 1}
QueryRawRetentionChoices == {0, 1, 2}
DefaultRangeChoices == {DEFAULT_RANGE_HOURS, HourParts \div 10}

QueryRawRows ==
  {RawRow(QueryBaseMs - age, CHOOSE p \in Payloads : p.cpuTempC # Null) :
     age \in {0, HOUR_MS \div 2, HOUR_MS, 2 * HOUR_MS}}

Query1mRows ==
  {compute1mRollup(QueryBaseMs - age,
                   <<RawRow(QueryBaseMs - age, CHOOSE p \in Payloads : p.cpuTempC # Null)>>) :
     age \in {MINUTE_MS, HOUR_MS, HOUR_MS + MINUTE_MS, 2 * HOUR_MS, 3 * HOUR_MS}}

InitQuery ==
  /\ now \in QueryNowChoices
  /\ bootMs = BootBaseMs
  /\ METRICS_INTERVAL_MS = Some(DEFAULT_INTERVAL_MS)
  /\ METRICS_RAW_RETENTION_HOURS \in QueryRawRetentionChoices
  /\ METRICS_1M_RETENTION_DAYS = 1
  /\ METRICS_DEFAULT_RANGE_HOURS \in DefaultRangeChoices
  /\ \E sampledAtTheMinute \in BOOLEAN :
       rawTier = IF sampledAtTheMinute THEN QueryRawRows
                 ELSE {r \in QueryRawRows : r.timeMs # QueryBaseMs - HOUR_MS}
  /\ m1Tier = Query1mRows
  /\ InitSamplerState
  /\ timerArmed = TRUE
  /\ timerDueMs = now + SamplerInterval(METRICS_INTERVAL_MS)
  /\ storeOp = Null
  /\ metricsReply = Null
  /\ proc = ServingProcess
  /\ appLog = <<>>

NextQuery == \E param \in RangeParams : MetricsJson(param)

SpecQuery == InitQuery /\ [][NextQuery]_vars

\* ------------------------------------------------------ tokens (auth.ts)
\* typeof v === 'string'
IsString(v) == v.type = "string"

\* a ?? b
NullishOr(a, b) == IF a.type = "undefined" THEN b ELSE a

\* str.charCodeAt(i) of the characters the requests below use
CharCode(c) ==
  CASE c = " " -> 32
    [] c = "B" -> 66
    [] c = "T" -> 84
    [] c = "a" -> 97
    [] c = "b" -> 98
    [] c = "c" -> 99
    [] c = "e" -> 101
    [] c = "i" -> 105
    [] c = "r" -> 114
    [] c = "s" -> 115
    [] c = "t" -> 116
    [] c = "x" -> 120

\* the /i flag of the pattern: letters compared in lower case
LowerCase(c) ==
  CASE c = "B" -> "b"
    [] c = "T" -> "t"
    [] OTHER -> c

\* str.trim()
RECURSIVE TrimStart(_)
TrimStart(str) ==
  IF str # <<>> /\ Head(str) = " " THEN TrimStart(Tail(str)) ELSE str

RECURSIVE TrimEnd(_)
TrimEnd(str) ==
  IF str # <<>> /\ str[Len(str)] = " " THEN TrimEnd(SubSeq(str, 1, Len(str) - 1)) ELSE str

Trim(str) == TrimEnd(TrimStart(str))

\* number of whitespace characters of str from position k on, up to the
\* first other character
RECURSIVE SpacesFrom(_, _)
SpacesFrom(str, k) ==
  IF k <= Len(str) /\ str[k] = " " THEN 1 + SpacesFrom(str, k + 1) ELSE 0

\* the scheme compared as written (the pattern without its /i flag)
BearerMatchCaseSensitive(auth) ==
  LET scheme == <<"B", "e", "a", "r", "e", "r">>
      n == Len(scheme)
      spaces == SpacesFrom(auth, n + 1)
  IN IF Len(auth) < n \/ SubSeq(auth, 1, n) # scheme THEN Null
     ELSE IF spaces = 0 THEN Null
     ELSE IF n + spaces < Len(auth) THEN Some(SubSeq(auth, n + spaces + 1, Len(auth)))
     ELSE IF spaces >= 2 THEN Some(<<" ">>)
     ELSE Null

\* auth.match(/^Bearer\s+(.+)$/i): Null, or <<m[1]>>. \s+ takes every
\* space it can and gives one back when nothing else is left for (.+).
BearerMatch(auth) ==
  LET scheme == <<"b", "e", "a", "r", "e", "r">>
      n == Len(scheme)
      spaces == SpacesFrom(auth, n + 1)
  IN IF Len(auth) < n \/ [k \in 1..n |-> LowerCase(auth[k])] # scheme THEN Null
     ELSE IF spaces = 0 THEN Null
     ELSE IF n + spaces < Len(auth) THEN Some(SubSeq(auth, n + spaces + 1, Len(auth)))
     ELSE IF spaces >= 2 THEN Some(<<" ">>)
     ELSE Null

\* getProvidedToken(req) of auth.ts: Null, or <<token>>
getProvidedToken(req) ==
  LET q == req.query.token
      auth == req.headers.authorization
      m == IF IsString(auth) THEN BearerMatch(auth.chars) ELSE Null
      x == NullishOr(req.headers.xStatusToken, req.headers.XStatusToken)
  IN IF IsString(q) /\ Trim(q.chars) # <<>> THEN Some(Trim(q.chars))
     ELSE IF m # Null /\ Trim(m[1]) # <<>> THEN Some(Trim(m[1]))
     ELSE IF IsString(x) /\ Trim(x.chars) # <<>> THEN Some(Trim(x.chars))
     ELSE Null

\* a ^ b and a | b on the code units
RECURSIVE BitXor(_, _)
BitXor(a, b) ==
  IF a = 0 /\ b = 0 THEN 0
  ELSE (((a % 2) + (b % 2)) % 2) + 2 * BitXor(a \div 2, b \div 2)

RECURSIVE BitOr(_, _)
BitOr(a, b) ==
  IF a = 0 /\ b = 0 THEN 0
  ELSE Max2(a % 2, b % 2) + 2 * BitOr(a \div 2, b \div 2)

\* for (let i = 0; i < a.length; i++) out |= a.charCodeAt(i) ^ b.charCodeAt(i)
RECURSIVE XorAll(_, _, _)
XorAll(a, b, n) ==
  IF n = 0 THEN 0
  ELSE BitOr(XorAll(a, b, n - 1), BitXor(CharCode(a[n]), CharCode(b[n])))

\* constantTimeEqual(a, b)
constantTimeEqual(a, b) ==
  IF Len(a) # Len(b) THEN FALSE ELSE XorAll(a, b, Len(a)) = 0

\* verifyToken(req, expectedToken)
verifyToken(req, expectedToken) ==
  LET provided == getProvidedToken(req)
  IN IF provided = Null THEN FALSE ELSE constantTimeEqual(provided[1], expectedToken)

\* Requests: values of ?token=, Authorization, x-status-token and (in a
\* request object built by hand) X-Status-Token.
QueryTokenChoices ==
  {Undefined, ArrayValue, StringValue(<<>>), StringValue(<<" ">>), StringValue(<<"t">>),
   StringValue(<<" ", "t", " ">>), StringValue(<<"x">>)}

AuthorizationChoices ==
  {Undefined,
   StringValue(<<"B", "e", "a", "r", "e", "r", " ", "t">>),
   StringValue(<<"b", "e", "a", "r", "e", "r", " ", " ", "t", " ">>),
   StringValue(<<"B", "e", "a", "r", "e", "r", " ", "x">>),
   StringValue(<<"B", "e", "a", "r", "e", "r", " ", " ">>),
   StringValue(<<"B", "e", "a", "r", "e", "r", "t">>),
   StringValue(<<"B", "a", "s", "i", "c", " ", "t">>)}

XStatusTokenChoices ==
  {Undefined, StringValue(<<>>), StringValue(<<"t">>), StringValue(<<"T">>)}

Requests ==
  {[query |-> [token |-> q],
    headers |-> [authorization |-> a, xStatusToken |-> x, XStatusToken |-> Undefined]] :
     q \in QueryTokenChoices, a \in AuthorizationChoices, x \in XStatusTokenChoices}

\* request objects with the header under its capitalised name
HandMadeRequests ==
  {[query |-> [token |-> Undefined],
    headers |-> [authorization |-> Undefined, xStatusToken |-> x, XStatusToken |-> y]] :
     x \in {Undefined, StringValue(<<>>)}, y \in {StringValue(<<"t">>), StringValue(<<"x">>)}}

ExpectedTokens == {<<>>, <<"t">>, <<"x">>, <<"T">>, <<"t", "t">>}

\* the requests that reach the server: one of each way to carry a token or none
ServedRequests ==
  {r \in Requests :
     \/ /\ r.headers.authorization = Undefined
        /\ r.headers.xStatusToken = Undefined
        /\ r.query.token \in {Undefined, ArrayValue, StringValue(<<"t">>),
                              StringValue(<<" ", "t", " ">>), StringValue(<<"x">>)}
     \/ /\ r.query.token = Undefined
        /\ r.headers.xStatusToken = Undefined
        /\ r.headers.authorization \in
             {StringValue(<<"b", "e", "a", "r", "e", "r", " ", " ", "t", " ">>),
              StringValue(<<"B", "a", "s", "i", "c", " ", "t">>)}
     \/ /\ r.query.token = StringValue(<<" ">>)
        /\ r.headers.authorization = Undefined
        /\ r.headers.xStatusToken \in {StringValue(<<"t">>), StringValue(<<"T">>)}}

\* ------------------------------------------------------ notify (notify.ts)
\* the no-change rule tried after the rate limit
decideNotifyRateLimitFirst(input) ==
  IF input.skipInitial /\ input.prevHealth = Null
  THEN [shouldNotify |-> FALSE, reason |-> "initial-skip"]
  ELSE IF input.lastNotifiedAtMs # Null
          /\ input.nowMs - input.lastNotifiedAtMs[1] < input.minIntervalMs
  THEN [shouldNotify |-> FALSE, reason |-> "rate-limited"]
  ELSE IF input.prevHealth = Some(input.nextHealth)
  THEN [shouldNotify |-> FALSE, reason |-> "no-change"]
  ELSE [shouldNotify |-> TRUE, reason |-> "state-changed"]

\* decideNotify(input); prevHealth and lastNotifiedAtMs are Null or <<value>>
decideNotify(input) ==
  IF input.skipInitial /\ input.prevHealth = Null
  THEN [shouldNotify |-> FALSE, reason |-> "initial-skip"]
  ELSE IF input.prevHealth = Some(input.nextHealth)
  THEN [shouldNotify |-> FALSE, reason |-> "no-change"]
  ELSE IF input.lastNotifiedAtMs # Null
          /\ input.nowMs - input.lastNotifiedAtMs[1] < input.minIntervalMs
  THEN [shouldNotify |-> FALSE, reason |-> "rate-limited"]
  ELSE [shouldNotify |-> TRUE, reason |-> "state-changed"]

\* type Health = 'ok' | 'degraded' | 'down'
Health == {"ok", "degraded", "down"}

NotifyInputs ==
  {[prevHealth |-> prev, nextHealth |-> next, nowMs |-> nowMs, lastNotifiedAtMs |-> last,
    minIntervalMs |-> min, skipInitial |-> skip] :
     prev \in {Null} \cup {Some(h) : h \in Health}, next \in Health, nowMs \in {1000, 10000},
     last \in {Null, Some(0), Some(5000), Some(9000), Some(10000)},
     min \in {0, 1000, 5000}, skip \in BOOLEAN}

\* ------------------------------------------- calls of notify.ts and auth.ts
\* The calls to make: the arguments are drawn here, the call is pending.
LibraryCalls ==
  {[op |-> "decideNotify", input |-> input, returned |-> FALSE] : input \in NotifyInputs}
  \cup {[op |-> "verifyToken", req |-> req, expectedToken |-> e, returned |-> FALSE] :
          req \in Requests \cup HandMadeRequests, e \in ExpectedTokens}
  \cup {[op |-> "constantTimeEqual", a |-> a, b |-> b, returned |-> FALSE] :
          a \in ExpectedTokens, b \in ExpectedTokens}

InitCalls ==
  /\ now = BootBaseMs
  /\ bootMs = now
  /\ METRICS_INTERVAL_MS = Some(DEFAULT_INTERVAL_MS)
  /\ METRICS_RAW_RETENTION_HOURS = 24
  /\ METRICS_1M_RETENTION_DAYS = 1
  /\ METRICS_DEFAULT_RANGE_HOURS = DEFAULT_RANGE_HOURS
  /\ rawTier = {}
  /\ m1Tier = {}
  /\ InitSamplerState
  /\ timerArmed = FALSE
  /\ timerDueMs = now + SamplerInterval(METRICS_INTERVAL_MS)
  /\ storeOp \in LibraryCalls
  /\ metricsReply = Null
  /\ proc = ServingProcess
  /\ appLog = <<>>

\* decideNotify(input) returns
CallDecideNotify ==
  /\ storeOp.op = "decideNotify"
  /\ ~storeOp.returned
  /\ storeOp' = [op |-> "decideNotify", input |-> storeOp.input, returned |-> TRUE,
                 result |-> decideNotify(storeOp.input)]
  /\ UNCHANGED <<now, bootMs, cfgVars, metricsReply, procVars, storeVars, samplerVars, tickVars>>

\* verifyToken(req, expectedToken) returns
CallVerifyToken ==
  /\ storeOp.op = "verifyToken"
  /\ ~storeOp.returned
  /\ storeOp' = [op |-> "verifyToken", req |-> storeOp.req,
                 expectedToken |-> storeOp.expectedToken, returned |-> TRUE,
                 result |-> verifyToken(storeOp.req, storeOp.expectedToken)]
  /\ UNCHANGED <<now, bootMs, cfgVars, metricsReply, procVars, storeVars, samplerVars, tickVars>>

\* constantTimeEqual(a, b) returns
CallConstantTimeEqual ==
  /\ storeOp.op = "constantTimeEqual"
  /\ ~storeOp.returned
  /\ storeOp' = [op |-> "constantTimeEqual", a |-> storeOp.a, b |-> storeOp.b,
                 returned |-> TRUE, result |-> constantTimeEqual(storeOp.a, storeOp.b)]
  /\ UNCHANGED <<now, bootMs, cfgVars, metricsReply, procVars, storeVars, samplerVars, tickVars>>

NextCalls ==
  \/ CallDecideNotify
  \/ CallVerifyToken
  \/ CallConstantTimeEqual

SpecCalls == InitCalls /\ [][NextCalls]_vars

\* ------------------------------------------- requests (server.ts, Fastify)
\* statusTokenEnabled(): the trimmed token, or Null
statusTokenEnabled(env) ==
  LET t == Trim(NullishOr(env, StringValue(<<>>)).chars)
  IN IF Len(t) > 0 THEN Some(t) ELSE Null

\* getProvidedToken(req) of server.ts: Null, or <<token>>
ServerGetProvidedToken(req) ==
  LET q == NullishOr(req.query.token, StringValue(<<>>))
      auth == NullishOr(req.headers.authorization, StringValue(<<>>))
      m == IF IsString(auth) THEN BearerMatch(auth.chars) ELSE Null
      x == NullishOr(req.headers.xStatusToken, StringValue(<<>>))
  IN IF IsString(q) /\ Trim(q.chars) # <<>> THEN Some(Trim(q.chars))
     ELSE IF m # Null /\ Trim(m[1]) # <<>> THEN Some(Trim(m[1]))
     ELSE IF IsString(x) /\ Trim(x.chars) # <<>> THEN Some(Trim(x.chars))
     ELSE Null

\* the hook letting every request with some token through
RejectedWithoutToken(env, req) ==
  statusTokenEnabled(env) # Null /\ ServerGetProvidedToken(req) = Null

\* app.addHook('onRequest', ...): TRUE when the hook answers 401
Rejected(env, req) ==
  LET expected == statusTokenEnabled(env)
      provided == ServerGetProvidedToken(req)
  IN IF expected = Null THEN FALSE
     ELSE provided = Null \/ ~constantTimeEqual(provided[1], expected[1])

Routes == {"/", "/health.json", "/status.json", "/metrics.json"}

\* what the handler of a route sends
RouteData(route) ==
  CASE route = "/" -> "page"
    [] route = "/health.json" -> "health"
    [] route = "/status.json" -> "status"
    [] route = "/metrics.json" -> "metrics"

\* collectStatus() has four callers: the sampler's callback and the handlers
\* of '/', '/health.json' and '/status.json'. Only the callback hands the
\* status on to addMetricsSampleFromStatus (its one call site), which pushes
\* it to metricsHistory and pendingRawBatch; the handlers send it and drop it.
addsMetricsSampleAnyCaller(caller) == TRUE

addsMetricsSample(caller) == caller = "tick"

\* One request from the socket to the reply. The onRequest hook runs first;
\* when it has sent the 401 the reply is complete: Fastify does not go on to
\* the handler of the route, and whatever ran after that could send nothing
\* more. Otherwise the handler of the route sends its data (the handlers of
\* '/', '/health.json' and '/status.json' after await collectStatus()).
HttpRequest(route, req, wantsHtml, param) ==
  /\ proc.phase = "listening"
  /\ HandlerMayStart(running)
  /\ param # Null => route = "/metrics.json"
  /\ IF Rejected(proc.statusToken, req)
     THEN /\ proc' = [proc EXCEPT !.reply =
                        Some([code |-> 401, route |-> route, req |-> req,
                              body |-> IF wantsHtml THEN "401 html" ELSE "401 json"])]
          /\ UNCHANGED <<metricsReply, metricsHistory, pendingRawBatch>>
     ELSE /\ proc' = [proc EXCEPT !.handled = TRUE,
                                  !.reply = Some([code |-> 200, route |-> route,
                                                  req |-> req,
                                                  body |-> RouteData(route)])]
          /\ IF route = "/metrics.json"
             THEN /\ metricsReply' = MetricsJsonReply(param)
                  /\ UNCHANGED <<metricsHistory, pendingRawBatch>>
             ELSE LET status == RawRow(now, CHOOSE p \in Payloads : TRUE)
                  IN /\ metricsHistory' = IF addsMetricsSample("request")
                                          THEN PushHistory(metricsHistory, status)
                                          ELSE metricsHistory
                     /\ pendingRawBatch' = IF addsMetricsSample("request")
                                           THEN Append(pendingRawBatch, status)
                                           ELSE pendingRawBatch
                     /\ UNCHANGED metricsReply
  /\ UNCHANGED <<now, bootMs, cfgVars, storeVars, lastRollupBucketStartMs, lastPruneAtMs,
                 lastDmesgErrorSummary, tickVars, storeOp, appLog>>

\* ------------------------------------------- queries between the ticks
\* the database file holds rows of an earlier run, young enough to be
\* kept and queried; the requests leave the range to its default
InitServe == Init /\ rawTier # {} /\ METRICS_RAW_RETENTION_HOURS = 24

ServeParams == {Null}

NextServe ==
  \/ Next
  \/ \E param \in ServeParams : MetricsJson(param)

SpecServe == InitServe /\ [][NextServe]_vars

\* ------------------------------------------- requests between the ticks
\* a request without a token, to a server that asks for none
PlainRequest ==
  [query |-> [token |-> Undefined],
   headers |-> [authorization |-> Undefined, xStatusToken |-> Undefined,
                XStatusToken |-> Undefined]]

\* the steps of the sampler with one status for every collection
NextTraffic ==
  \/ AdvanceClock
  \/ \E i \in Ticks : TimerFire(i)
  \/ \E i \in Ticks : CollectThrows(i)
  \/ \E i \in Ticks : CollectReturns(i, CHOOSE p \in Payloads : TRUE)
  \/ \E i \in Ticks, f \in 0..MaxBatch : FlushRawBatch(i, f)
  \/ \E i \in Ticks, f \in StoreFaults : RollupStep(i, f)
  \/ \E i \in Ticks, f \in StoreFaults, e \in BOOLEAN : PruneStep(i, f, e)
  \/ \E i \in Ticks, found \in BOOLEAN : ScanReturns(i, found)
  \/ \E route \in Routes : HttpRequest(route, PlainRequest, FALSE, Null)

\* the interval is left at its default
InitTraffic == InitServe /\ SamplerInterval(METRICS_INTERVAL_MS) = DEFAULT_INTERVAL_MS

SpecTraffic == InitTraffic /\ [][NextTraffic]_vars

\* ------------------------------------------------------------- shutdown
\* SIGTERM or SIGINT reaches the process. server.ts installs no handler for
\* either (no process.on), so the default action of the signal ends the
\* process where it stands: no callback runs any more, what is in memory is
\* gone, and metricsDb.close() has not been called.
Shutdown ==
  /\ Alive
  /\ proc' = [proc EXCEPT !.phase = "exited", !.exitCode = Some(143)]
  /\ timerArmed' = FALSE
  /\ UNCHANGED <<now, bootMs, cfgVars, metricsReply, storeVars, samplerVars, timerDueMs,
                 nextTick, running, tickPc, tickTimeMs, tickSample, tickNowMs, rollupLog, scanLog,
                 storeOp, appLog>>

NextShutdown ==
  \/ Next
  \/ Shutdown

SpecShutdown == Init /\ [][NextShutdown]_vars

\* ------------------------------------------------- the life of the process
NextProcess ==
  \/ \E mkdirFails \in BOOLEAN : EnsureDbDir(mkdirFails)
  \/ \E openFails \in BOOLEAN : OpenDb(openFails)
  \/ StartMetricsSampler
  \/ \E listenFails \in BOOLEAN : Listen(listenFails)
  \/ \E route \in Routes, req \in ServedRequests, wantsHtml \in BOOLEAN,
          param \in {Null, Some("1")} :
       HttpRequest(route, req, wantsHtml, param)

SpecProcess == InitProcess /\ [][NextProcess]_vars

\* ------------------------------------- health (server.ts, collectStatus)
MEM_WARN_PCT == 90
TEMP_WARN_C == 80
DISK_WARN_PCT == 90
INODE_WARN_PCT == 90
DMESG_WINDOW_MS == 900000

\* raw.split(',').map((s) => s.trim()).filter(Boolean); cur is the piece
\* read so far
RECURSIVE SplitPatterns(_, _)
SplitPatterns(str, cur) ==
  LET piece == IF Trim(cur) = <<>> THEN <<>> ELSE <<Trim(cur)>>
  IN IF str = <<>> THEN piece
     ELSE IF Head(str) = "," THEN piece \o SplitPatterns(Tail(str), <<>>)
     ELSE SplitPatterns(Tail(str), Append(cur, Head(str)))

\* procChecks: Null without patterns, else one check per pattern
\* (pgrepCount(pattern) > 0 for the patterns some process matches)
ProcChecks(patternsEnv, matching) ==
  LET procPatterns == SplitPatterns(NullishOr(patternsEnv, StringValue(<<>>)).chars, <<>>)
  IN IF Len(procPatterns) > 0
     THEN Some([k \in 1..Len(procPatterns) |->
                  [pattern |-> procPatterns[k], running |-> procPatterns[k] \in matching]])
     ELSE Null

Healthy == [health |-> "ok", notes |-> <<>>]

NotRunning(check) == ~check.running

ProcessNote(check) == [check |-> "process", about |-> check.pattern]

\* the process checks made whether or not a unit is configured
LivenessChecksBoth(serviceEnv, state, procChecks) ==
  LET service == Trim(NullishOr(serviceEnv, StringValue(<<>>)).chars)
      down == IF procChecks = Null THEN <<>> ELSE SelectSeq(procChecks[1], NotRunning)
      unit == IF service # <<>> /\ state # "active"
              THEN <<[check |-> "systemd", about |-> service]>> ELSE <<>>
      notes == unit \o [k \in 1..Len(down) |-> ProcessNote(down[k])]
  IN [health |-> IF notes = <<>> THEN "ok" ELSE "degraded", notes |-> notes]

\* if (clawdbotService) { if (clawdbotState !== 'active') ... }
\* else if (procChecks) { down = procChecks.filter(!running); if (down.length) ... }
LivenessChecks(serviceEnv, state, procChecks) ==
  LET service == Trim(NullishOr(serviceEnv, StringValue(<<>>)).chars)
  IN IF service # <<>>
     THEN IF state # "active"
          THEN [health |-> "degraded",
                notes |-> <<[check |-> "systemd", about |-> service]>>]
          ELSE Healthy
     ELSE IF procChecks # Null
     THEN LET down == SelectSeq(procChecks[1], NotRunning)
          IN IF Len(down) > 0
             THEN [health |-> "degraded",
                   notes |-> [k \in 1..Len(down) |-> ProcessNote(down[k])]]
             ELSE Healthy
     ELSE Healthy

\* the note pushed without the assignment to health
NoteOnly(h, check) ==
  [health |-> h.health, notes |-> Append(h.notes, [check |-> check, about |-> <<>>])]

\* health = health === 'ok' ? 'degraded' : health; notes.push(...)
Degrade(h, check) ==
  [health |-> IF h.health = "ok" THEN "degraded" ELSE h.health,
   notes |-> Append(h.notes, [check |-> check, about |-> <<>>])]

\* The health and the notes of collectStatus after each of its checks, in
\* the order of the code: liveness, memory, temperature, disk, inodes, dmesg.
\* summary is lastDmesgErrorSummary and nowMs the Date.now() of line 308.
HealthTrail(input, summary, nowMs) ==
  LET h1 == LivenessChecks(input.service, input.state,
                           ProcChecks(input.patterns, input.matching))
      h2 == IF input.memUsedPct > MEM_WARN_PCT THEN Degrade(h1, "memory") ELSE h1
      h3 == IF input.cpuTempC # Null /\ input.cpuTempC[1] >= TEMP_WARN_C
            THEN Degrade(h2, "cpu temp") ELSE h2
      h4 == IF input.diskUsedPct # Null /\ input.diskUsedPct[1] >= DISK_WARN_PCT
            THEN Degrade(h3, "disk") ELSE h3
      h5 == IF input.inodeUsedPct # Null /\ input.inodeUsedPct[1] >= INODE_WARN_PCT
            THEN Degrade(h4, "inode") ELSE h4
      h6 == IF summary # Null /\ nowMs - summary[1] < DMESG_WINDOW_MS
            THEN Degrade(h5, "dmesg") ELSE h5
  IN <<h1, h2, h3, h4, h5, h6>>

\* what the probes of one evaluation return, and the environment
ServiceChoices == {Undefined, StringValue(<<" ">>), StringValue(<<"a">>)}
UnitStates == {"active", "inactive", "unknown"}
PatternsChoices ==
  {Undefined, StringValue(<<",">>), StringValue(<<"a">>),
   StringValue(<<"a", ",", " ", "b">>)}

HealthInputs ==
  {[service |-> service, state |-> state, patterns |-> patterns, matching |-> matching,
    memUsedPct |-> mem, cpuTempC |-> temp, diskUsedPct |-> disk, inodeUsedPct |-> inode] :
     service \in ServiceChoices, state \in UnitStates, patterns \in PatternsChoices,
     matching \in SUBSET {<<"a">>, <<"b">>}, mem \in {MEM_WARN_PCT, MEM_WARN_PCT + 1},
     temp \in {Null, Some(TEMP_WARN_C)}, disk \in {Some(DISK_WARN_PCT - 1), Some(DISK_WARN_PCT)},
     inode \in {Null, Some(INODE_WARN_PCT + 1)}}

InitHealth ==
  /\ now = BootBaseMs
  /\ bootMs = now
  /\ METRICS_INTERVAL_MS = Some(DEFAULT_INTERVAL_MS)
  /\ METRICS_RAW_RETENTION_HOURS = 24
  /\ METRICS_1M_RETENTION_DAYS = 1
  /\ METRICS_DEFAULT_RANGE_HOURS = DEFAULT_RANGE_HOURS
  /\ rawTier = {}
  /\ m1Tier = {}
  /\ pendingRawBatch = <<>>
  /\ lastRollupBucketStartMs = Null
  /\ lastPruneAtMs = Null
  /\ lastDmesgErrorSummary
       \in {Null, Some(now - DMESG_WINDOW_MS), Some(now - DMESG_WINDOW_MS + 1)}
  /\ metricsHistory = <<>>
  /\ nextTick = 1
  /\ running = 0
  /\ tickPc = [i \in Ticks |-> "idle"]
  /\ tickTimeMs = [i \in Ticks |-> 0]
  /\ tickSample = [i \in Ticks |-> Null]
  /\ tickNowMs = [i \in Ticks |-> Null]
  /\ rollupLog = <<>>
  /\ scanLog = <<>>
  /\ timerArmed = FALSE
  /\ timerDueMs = now + SamplerInterval(METRICS_INTERVAL_MS)
  /\ storeOp \in {[op |-> "collectStatus", input |-> input, returned |-> FALSE] :
                     input \in HealthInputs}
  /\ metricsReply = Null
  /\ proc = ServingProcess
  /\ appLog = <<>>

\* collectStatus() returns: its health and notes, and their history
CallCollectStatus ==
  /\ storeOp.op = "collectStatus"
  /\ ~storeOp.returned
  /\ LET trail == HealthTrail(storeOp.input, lastDmesgErrorSummary, now)
     IN storeOp' = [op |-> "collectStatus", input |-> storeOp.input, returned |-> TRUE,
                    trail |-> trail, health |-> trail[Len(trail)].health,
                    notes |-> trail[Len(trail)].notes]
  /\ UNCHANGED <<now, bootMs, cfgVars, metricsReply, procVars, storeVars, samplerVars, tickVars>>

NextHealth == CallCollectStatus

SpecHealth == InitHealth /\ [][NextHealth]_vars

\* ---------------------------- cpu usage (server.ts, getCpuUsagePctInstant)
CPU_MIN_DT_MS == 250
MaxCpuSteps == 3

\* /proc/stat as one reading finds it: unreadable or without a usable 'cpu'
\* line (Null), or the counters total and idleAll of that line
ProcStatReads ==
  {Null} \cup {Some([total |-> total, idle |-> idle]) :
                 total \in {1000, 1100, 1300}, idle \in {700, 750, 950}}

\* Math.max(0, Math.min(100, ((totald - idled) / totald) * 100)) as a
\* fraction <<numerator, denominator>> in lowest terms
ClampedUsage(totald, idled) ==
  LET num == (totald - idled) * 100
  IN IF num <= 0 THEN <<0, 1>>
     ELSE IF num >= 100 * totald THEN <<100, 1>>
     ELSE <<num \div Gcd(num, totald), totald \div Gcd(num, totald)>>

\* the baseline replaced only by a reading that returns a value
CpuUsageKeepingBaseline(prev, stat, nowMs) ==
  IF stat = Null \/ prev = Null \/ nowMs - prev[1].timeMs < CPU_MIN_DT_MS
     \/ stat[1].total - prev[1].total <= 0
  THEN [result |-> Null,
        lastProcStat |-> IF prev = Null /\ stat # Null
                         THEN Some([timeMs |-> nowMs, total |-> stat[1].total,
                                    idle |-> stat[1].idle])
                         ELSE prev]
  ELSE [result |-> ClampedUsage(stat[1].total - prev[1].total, stat[1].idle - prev[1].idle),
        lastProcStat |-> Some([timeMs |-> nowMs, total |-> stat[1].total,
                               idle |-> stat[1].idle])]

\* getCpuUsagePctInstant() from the point where readFile has settled: what
\* it returns and what it leaves in lastProcStat
CpuUsagePctInstant(prev, stat, nowMs) ==
  IF stat = Null THEN [result |-> Null, lastProcStat |-> prev]
  ELSE LET baseline == Some([timeMs |-> nowMs, total |-> stat[1].total,
                             idle |-> stat[1].idle])
           totald == stat[1].total - prev[1].total
           idled == stat[1].idle - prev[1].idle
       IN IF prev = Null THEN [result |-> Null, lastProcStat |-> baseline]
          ELSE IF nowMs - prev[1].timeMs < CPU_MIN_DT_MS
          THEN [result |-> Null, lastProcStat |-> baseline]
          ELSE IF totald <= 0 THEN [result |-> Null, lastProcStat |-> baseline]
          ELSE [result |-> ClampedUsage(totald, idled), lastProcStat |-> baseline]

\* collectStatus is called by the sampler tick and by the handlers of '/',
\* '/health.json' and '/status.json'
CpuCallers == {"tick", "request"}

InitCpu ==
  /\ InitHealth
  /\ lastDmesgErrorSummary = Null
  /\ storeOp.input = CHOOSE input \in HealthInputs : TRUE

\* time passes between two readings
CpuClockStep(d) ==
  /\ now + d <= bootMs + MaxCpuSteps * CPU_MIN_DT_MS
  /\ now' = now + d
  /\ UNCHANGED <<bootMs, cfgVars, metricsReply, procVars, storeVars, samplerVars, tickVars,
                 storeOp>>

\* one call of getCpuUsagePctInstant() (within collectStatus) returns
GetCpuUsagePctInstant(caller, stat) ==
  /\ LET r == CpuUsagePctInstant(proc.lastProcStat, stat, now)
     IN /\ proc' = [proc EXCEPT !.lastProcStat = r.lastProcStat]
        /\ storeOp' = [op |-> "getCpuUsagePctInstant", caller |-> caller, stat |-> stat,
                       nowMs |-> now, prev |-> proc.lastProcStat, result |-> r.result,
                       returned |-> TRUE]
  /\ UNCHANGED <<now, bootMs, cfgVars, metricsReply, appLog, storeVars, samplerVars, tickVars>>

NextCpu ==
  \/ \E d \in {CPU_MIN_DT_MS - 1, CPU_MIN_DT_MS} : CpuClockStep(d)
  \/ \E caller \in CpuCallers, stat \in ProcStatReads : GetCpuUsagePctInstant(caller, stat)

SpecCpu == InitCpu /\ [][NextCpu]_vars

\* ------------------------------------------- the dmesg finding over time
\* A run in leaps of a quarter of an hour, one of them a millisecond short:
\* the next prune (and scan) is due after each, and a finding is on either
\* side of the end of its window.
DMESG_TIMEOUT_MS == 5000
MaxLeaps == 2
LeapChoices == {DMESG_WINDOW_MS - 1, DMESG_WINDOW_MS}

\* what the probes return at the evaluations: all well, or the unit inactive
ProbeChoices ==
  {input \in HealthInputs :
     /\ input.patterns = Undefined /\ input.matching = {}
     /\ input.memUsedPct = MEM_WARN_PCT /\ input.cpuTempC = Null
     /\ input.diskUsedPct = Some(DISK_WARN_PCT - 1) /\ input.inodeUsedPct = Null
     /\ \/ input.service = Undefined /\ input.state = "unknown"
        \/ input.service = StringValue(<<"a">>) /\ input.state = "inactive"}

\* the process one interval after its start: the first tick is due
InitDmesg ==
  /\ bootMs = BootBaseMs
  /\ now = bootMs + DEFAULT_INTERVAL_MS
  /\ METRICS_INTERVAL_MS = Some(DEFAULT_INTERVAL_MS)
  /\ METRICS_RAW_RETENTION_HOURS = 24
  /\ METRICS_1M_RETENTION_DAYS = 1
  /\ METRICS_DEFAULT_RANGE_HOURS = DEFAULT_RANGE_HOURS
  /\ rawTier = {}
  /\ m1Tier = {}
  /\ InitSamplerState
  /\ timerArmed = TRUE
  /\ timerDueMs = now
  /\ storeOp = Null
  /\ metricsReply = Null
  /\ proc = ServingProcess
  /\ appLog = <<>>

\* A quarter of an hour passes. No scan is under way across a leap: execFile
\* ends dmesg after DMESG_TIMEOUT_MS, and scanDmesgErrors resolves with null.
ClockLeap(d) ==
  /\ running = 0
  /\ d > DMESG_TIMEOUT_MS => \A i \in Ticks : tickPc[i] # "scan"
  /\ now + d <= bootMs + DEFAULT_INTERVAL_MS + MaxLeaps * DMESG_WINDOW_MS
  /\ now' = now + d
  /\ UNCHANGED <<bootMs, cfgVars, metricsReply, procVars,
                 storeVars, samplerVars, tickVars, storeOp>>

\* a handler's collectStatus() evaluates the health at the clock's reading
CollectStatusNow(input) ==
  /\ Alive
  /\ running = 0
  /\ LET trail == HealthTrail(input, lastDmesgErrorSummary, now)
     IN storeOp' = [op |-> "collectStatus", input |-> input, returned |-> TRUE,
                    trail |-> trail, health |-> trail[Len(trail)].health,
                    notes |-> trail[Len(trail)].notes, nowMs |-> now]
  /\ UNCHANGED <<now, bootMs, cfgVars, metricsReply, procVars, storeVars, samplerVars,
                 tickVars>>

\* the ticks without faults of the store, with one status for every collection
NextDmesg ==
  \/ \E d \in LeapChoices : ClockLeap(d)
  \/ \E i \in Ticks : TimerFire(i)
  \/ \E i \in Ticks : CollectReturns(i, CHOOSE p \in Payloads : TRUE)
  \/ \E i \in Ticks : FlushRawBatch(i, 0)
  \/ \E i \in Ticks : RollupStep(i, "none")
  \/ \E i \in Ticks, e \in BOOLEAN : PruneStep(i, "none", e)
  \/ \E i \in Ticks, found \in BOOLEAN : ScanReturns(i, found)
  \/ \E input \in ProbeChoices : CollectStatusNow(input)

SpecDmesg == InitDmesg /\ [][NextDmesg]_vars

\* ------------------------------------------- a sampler that keeps running
\* The store holds rows of an earlier run on either side of the retention
\* horizons; the clock passes the prune period in every leap, every tick
\* completes, no call of the store fails and dmesg reports nothing.
GrowthRetentionChoices == {0, 2}
GrowthLeapChoices == {PRUNE_EVERY_MS + 1, DMESG_WINDOW_MS}
GrowthOffsets == {0 - 1, PRUNE_EVERY_MS, DMESG_WINDOW_MS}

GrowthRawRows(t0, hours) ==
  {RawRow(RawCutoff(t0, hours) + d, CHOOSE p \in Payloads : p.cpuTempC # Null) :
     d \in GrowthOffsets}

Growth1mRows(t0, days) ==
  {compute1mRollup(floorToMinute(M1Cutoff(t0, days) + d), <<>>) : d \in GrowthOffsets}

InitGrowth ==
  /\ bootMs = BootBaseMs
  /\ now = bootMs
  /\ METRICS_INTERVAL_MS = Some(DEFAULT_INTERVAL_MS)
  /\ METRICS_RAW_RETENTION_HOURS \in GrowthRetentionChoices
  /\ METRICS_1M_RETENTION_DAYS = METRICS_RAW_RETENTION_HOURS
  /\ METRICS_DEFAULT_RANGE_HOURS = DEFAULT_RANGE_HOURS
  /\ rawTier = GrowthRawRows(now, METRICS_RAW_RETENTION_HOURS)
  /\ m1Tier = Growth1mRows(now, METRICS_1M_RETENTION_DAYS)
  /\ InitSamplerState
  /\ timerArmed = TRUE
  /\ timerDueMs = now + SamplerInterval(METRICS_INTERVAL_MS)
  /\ storeOp = Null
  /\ metricsReply = Null
  /\ proc = ServingProcess
  /\ appLog = <<>>

GrowthStatus == CHOOSE p \in Payloads : TRUE

NextGrowth ==
  \/ \E d \in GrowthLeapChoices : ClockLeap(d)
  \/ \E i \in Ticks : TimerFire(i)
  \/ \E i \in Ticks : CollectReturns(i, GrowthStatus)
  \/ \E i \in Ticks : FlushRawBatch(i, 0)
  \/ \E i \in Ticks : RollupStep(i, "none")
  \/ \E i \in Ticks, e \in BOOLEAN : PruneStep(i, "none", e)
  \/ \E i \in Ticks : ScanReturns(i, FALSE)

\* Time passes; setInterval keeps firing the callback; collectStatus and
\* scanDmesgErrors settle (their commands run under timeouts); the
\* synchronous steps of a callback run to its next await.
GrowthFairness ==
  /\ WF_vars(\E d \in GrowthLeapChoices : ClockLeap(d))
  /\ \A i \in Ticks :
       /\ WF_vars(TimerFire(i))
       /\ WF_vars(CollectReturns(i, GrowthStatus))
       /\ WF_vars(FlushRawBatch(i, 0))
       /\ WF_vars(RollupStep(i, "none"))
       /\ WF_vars(\E e \in BOOLEAN : PruneStep(i, "none", e))
       /\ WF_vars(ScanReturns(i, FALSE))

SpecGrowth == InitGrowth /\ [][NextGrowth]_vars /\ GrowthFairness

\* ------------------------------------------------------------- properties
Range(q) == {q[k] : k \in 1..Len(q)}

InProgress == {"collect", "flush", "rollup", "prune", "scan"}
PastFlush == {"rollup", "prune", "scan", "done", "rollupThrew", "pruneThrew"}
PastRollup == {"prune", "scan", "done", "pruneThrew"}

InBucket(t, bucket) == bucket <= t /\ t < bucket + MINUTE_MS

\* C1: a tick whose collection throws does not stop the sampling loop: the
\* exception is swallowed and the timer stays armed, and when the collector
\* throws on tick k and tick k+1 succeeds (its collection returns and the
\* Store takes its flush), the sample of tick k+1 is in the raw tier from
\* the end of its flush on.
C1_ThrowDoesNotStopLoop ==
  /\ (\E k \in Ticks : tickPc[k] \in Caught) => timerArmed
  /\ \A k \in 1..(MaxTicks - 1) :
       (tickPc[k] = "collectThrew" /\ tickPc[k + 1] \in PastFlush)
         => tickSample[k + 1] \in rawTier

C1_Witness ==
  /\ tickPc[1] = "collectThrew"
  /\ tickPc[2] = "done"
  /\ tickTimeMs[2] > tickTimeMs[1]
  /\ tickSample[2] \in rawTier

\* C2: when the flush of the pending raw batch fails in a tick, the samples
\* of that batch are not discarded: they stay in the pending batch (until a
\* later flush persists them).
C2_FailedFlushKeepsBatch ==
  \A i \in Ticks :
    tickPc[i] = "flushThrew"
      => (tickSample[i] \in Range(pendingRawBatch) \/ tickSample[i] \in rawTier)

\* C3: at most one tick of the sampling loop is in progress at any time.
C3_AtMostOneTickInProgress ==
  Cardinality({i \in Ticks : tickPc[i] \in InProgress}) <= 1

\* C4: the rollup of bucket B is computed only after every raw sample with
\* timeMs in [B, B+60000) has been flushed: every raw row of a rolled-up
\* bucket that is in the Store was there when the rollup selected its rows,
\* so none is inserted after the rollup.
C4_NoRawInsertAfterRollup ==
  \A k \in 1..Len(rollupLog) :
    \A r \in rawTier :
      InBucket(r.timeMs, rollupLog[k].bucket) => r \in Range(rollupLog[k].raws)

\* C5: every closed minute bucket is rolled up exactly once per process run:
\* no bucket is rolled up twice, and once a tick has passed its rollup step
\* with clock reading nowMs, the bucket floorToMinute(nowMs - 60000) has been
\* rolled up exactly once.
C5_RolledUpExactlyOnce ==
  /\ \A j, k \in 1..Len(rollupLog) :
       rollupLog[j].bucket = rollupLog[k].bucket => j = k
  /\ \A i \in Ticks :
       tickPc[i] \in PastRollup
         => Cardinality({k \in 1..Len(rollupLog) :
               InBucket(tickNowMs[i][1] - MINUTE_MS, rollupLog[k].bucket)}) = 1

\* two ticks passed the rollup step in the same minute; the second one
\* found the bucket already rolled up and wrote nothing
C5_Witness ==
  /\ Len(rollupLog) = 1
  /\ \A i \in Ticks : tickPc[i] \in PastRollup
  /\ tickNowMs[1] # tickNowMs[2]

\* C6: the scheduler only rolls up a fully closed minute: a rollup of bucket
\* B computed at time now has B = floorToMinute(now - 60000), that is B a
\* multiple of 60000 with B <= now - 60000 < B + 60000, and B + 60000 <= now.
C6_RollsUpClosedMinute ==
  \A k \in 1..Len(rollupLog) :
    LET B == rollupLog[k].bucket
        n == rollupLog[k].nowMs
    IN /\ B % MINUTE_MS = 0
       /\ B <= n - MINUTE_MS
       /\ n - MINUTE_MS < B + MINUTE_MS
       /\ B + MINUTE_MS <= n
       /\ ~InBucket(n, B)

\* a rollup computed at the very millisecond its bucket's successor closed
C6_Witness ==
  \E k \in 1..Len(rollupLog) :
    /\ rollupLog[k].nowMs % MINUTE_MS = 0
    /\ rollupLog[k].bucket = rollupLog[k].nowMs - MINUTE_MS

\* C7 as stated: whenever the scheduler rolls up bucket B at time now, the
\* bucket ended at least 60 seconds earlier: B + 60000 <= now - 60000.
C7_EndedSixtySecondsEarlier ==
  \A k \in 1..Len(rollupLog) :
    rollupLog[k].bucket + MINUTE_MS <= rollupLog[k].nowMs - MINUTE_MS

\* C7 amended: whenever the scheduler rolls up bucket B at time now, the
\* bucket has ended, and it ended less than 60 seconds earlier:
\* B + 60000 <= now < B + 120000.
C7_EndedWithinLastMinute ==
  \A k \in 1..Len(rollupLog) :
    /\ rollupLog[k].bucket + MINUTE_MS <= rollupLog[k].nowMs
    /\ rollupLog[k].nowMs < rollupLog[k].bucket + 2 * MINUTE_MS

\* a rollup of a bucket that ended 40 seconds earlier
C7_Witness ==
  \E k \in 1..Len(rollupLog) :
    rollupLog[k].nowMs - (rollupLog[k].bucket + MINUTE_MS) = 2 * ClockStepMs

TickSteps ==
  { <<"idle", "collect">>, <<"collect", "flush">>, <<"collect", "collectThrew">>,
    <<"flush", "rollup">>, <<"flush", "flushThrew">>,
    <<"rollup", "prune">>, <<"rollup", "rollupThrew">>,
    <<"prune", "scan">>, <<"prune", "done">>, <<"prune", "pruneThrew">>,
    <<"scan", "done">> }

\* C8: within one tick the steps run in the order collect, flush, rollup,
\* prune, and the pending batch is flushed before the rollup reads raw rows:
\* when a tick reaches its rollup step its sample is in the raw tier and the
\* pending batch is empty, and a rollup whose bucket contains the tick's own
\* sample has selected that sample.
C8_FlushBeforeRollup ==
  [][ /\ \A i \in Ticks :
           tickPc'[i] # tickPc[i] => <<tickPc[i], tickPc'[i]>> \in TickSteps
      /\ \A i \in Ticks :
           tickPc'[i] = "rollup"
             => (tickSample'[i] \in rawTier' /\ pendingRawBatch' = <<>>)
      /\ \A k \in 1..Len(rollupLog') :
           LET e == rollupLog'[k]
           IN InBucket(tickSample'[e.tick].timeMs, e.bucket)
                => tickSample'[e.tick] \in Range(e.raws) ]_vars

\* a tick whose collection crossed the minute boundary rolled up the bucket
\* of its own sample, and the rollup saw that sample
C8_Witness ==
  \E k \in 1..Len(rollupLog) :
    LET e == rollupLog[k]
    IN /\ InBucket(tickSample[e.tick].timeMs, e.bucket)
       /\ tickSample[e.tick] \in Range(e.raws)

RawInsertOps == {"insertRawRow", "insertRawMany"}

LastWithKey(rows, t) ==
  rows[CHOOSE j \in 1..Len(rows) :
         /\ rows[j].timeMs = t
         /\ \A l \in 1..Len(rows) : rows[l].timeMs = t => l <= j]

BatchKeys(rows) == {rows[k].timeMs : k \in 1..Len(rows)}

\* C9: raw inserts are upserts keyed by timeMs: the raw tier never holds two
\* rows with one timeMs; after insertRawRow/insertRawMany succeeded, each
\* inserted timeMs has exactly one row, the latest one inserted for it, and
\* the rows of other keys are as before; re-inserting a row that is already
\* there changes nothing.
C9_RawInsertIsUpsert ==
  /\ \A r1, r2 \in rawTier : r1.timeMs = r2.timeMs => r1 = r2
  /\ (storeOp # Null /\ storeOp.op \in RawInsertOps /\ ~storeOp.threw) =>
       /\ \A t \in BatchKeys(storeOp.rows) :
            {r \in rawTier : r.timeMs = t} = {LastWithKey(storeOp.rows, t)}
       /\ {r \in rawTier : r.timeMs \notin BatchKeys(storeOp.rows)}
            = {r \in storeOp.before : r.timeMs \notin BatchKeys(storeOp.rows)}
       /\ (Range(storeOp.rows) \subseteq storeOp.before) => rawTier = storeOp.before

\* a row replaced by a row with the same timeMs and another payload
C9_Witness ==
  /\ storeOp # Null
  /\ storeOp.op = "insertRawRow"
  /\ ~storeOp.threw
  /\ \E r \in storeOp.before : r.timeMs = storeOp.rows[1].timeMs /\ r # storeOp.rows[1]
  /\ storeOp.rows[1] \in rawTier

\* C10: insertRawMany is all-or-nothing: it throws exactly when a statement
\* of the batch throws, and then the raw tier is as it was before the call;
\* when it does not throw every row of the batch is persisted (for a timeMs
\* that occurs twice in the batch, the later row).
C10_InsertRawManyAllOrNothing ==
  (storeOp # Null /\ storeOp.op = "insertRawMany") =>
    /\ storeOp.threw <=>
         (storeOp.ioFailAt # 0 \/ \E k \in 1..Len(storeOp.rows) : RawRowRejected(storeOp.rows[k]))
    /\ storeOp.threw => rawTier = storeOp.before
    /\ ~storeOp.threw =>
         \A t \in BatchKeys(storeOp.rows) : LastWithKey(storeOp.rows, t) \in rawTier

\* a batch whose first row was insertable and new, and whose second row threw
C10_Witness ==
  /\ storeOp # Null
  /\ storeOp.op = "insertRawMany"
  /\ storeOp.threw
  /\ Len(storeOp.rows) = 2
  /\ ~RawRowRejected(storeOp.rows[1])
  /\ storeOp.ioFailAt # 1
  /\ storeOp.rows[1] \notin storeOp.before
  /\ rawTier = storeOp.before

\* C11: selectRawRange(fromMs, toMs) returns exactly the raw rows with
\* fromMs <= timeMs <= toMs, both bounds included, in strictly ascending
\* timeMs order; select1mRange does the same on bucketStartMs; neither call
\* changes either tier of the Store.
C11_SelectRangeInclusiveAscending ==
  /\ (storeOp # Null /\ storeOp.op = "selectRawRange") =>
       LET res == storeOp.result
       IN /\ Range(res) = {r \in storeOp.before :
                              storeOp.fromMs <= r.timeMs /\ r.timeMs <= storeOp.toMs}
          /\ \A i, j \in 1..Len(res) : i < j => res[i].timeMs < res[j].timeMs
          /\ rawTier = storeOp.before
          /\ m1Tier = storeOp.before1m
  /\ (storeOp # Null /\ storeOp.op = "select1mRange") =>
       LET res == storeOp.result
       IN /\ Range(res) = {r \in storeOp.before1m :
                              storeOp.fromMs <= r.bucketStartMs
                                /\ r.bucketStartMs <= storeOp.toMs}
          /\ \A i, j \in 1..Len(res) :
               i < j => res[i].bucketStartMs < res[j].bucketStartMs
          /\ rawTier = storeOp.before
          /\ m1Tier = storeOp.before1m

\* a raw select whose two bounds are the timeMs of the two rows it returned
C11_Witness ==
  /\ storeOp # Null
  /\ storeOp.op = "selectRawRange"
  /\ Len(storeOp.result) = 2
  /\ storeOp.result[1].timeMs = storeOp.fromMs
  /\ storeOp.result[2].timeMs = storeOp.toMs

DistinctKeys(rows) == \A i, j \in 1..Len(rows) : rows[i].timeMs = rows[j].timeMs => i = j

\* C12: round trip: when N raw rows with pairwise distinct timeMs have been
\* inserted into an empty Store and a range covering all of them is selected
\* next, the select returns exactly N rows in ascending timeMs order, each
\* with every field (absent optional fields included) as it was inserted.
C12_InsertSelectRoundTrip ==
  [][ ( /\ storeOp # Null
        /\ storeOp.op \in RawInsertOps
        /\ ~storeOp.threw
        /\ storeOp.before = {}
        /\ DistinctKeys(storeOp.rows)
        /\ storeOp'.op = "selectRawRange"
        /\ \A t \in BatchKeys(storeOp.rows) : storeOp'.fromMs <= t /\ t <= storeOp'.toMs )
      => LET res == storeOp'.result
         IN /\ Len(res) = Len(storeOp.rows)
            /\ Range(res) = Range(storeOp.rows)
            /\ \A i, j \in 1..Len(res) : i < j => res[i].timeMs < res[j].timeMs ]_vars

\* a select that returned two rows strictly inside its range, one of them
\* with absent optional fields and one with every field set, from a Store
\* that holds nothing else
C12_Witness ==
  /\ storeOp # Null
  /\ storeOp.op = "selectRawRange"
  /\ Len(storeOp.result) = 2
  /\ Range(storeOp.result) = rawTier
  /\ storeOp.fromMs < storeOp.result[1].timeMs
  /\ storeOp.result[2].timeMs < storeOp.toMs
  /\ \E i, j \in 1..2 :
       /\ storeOp.result[i].cpuTempC = Null
       /\ storeOp.result[j].cpuUsagePctInstant # Null

\* C13: pruneRaw(cutoff) deletes exactly the raw rows with timeMs < cutoff (a
\* row at the cutoff is kept), leaves the other raw rows and the whole rollup
\* tier as they were, and returns the number of rows it deleted; prune1m
\* does the same for the rollup tier on bucketStartMs and leaves the raw tier
\* as it was.
C13_PruneDeletesStrictlyOlder ==
  /\ (storeOp # Null /\ storeOp.op = "pruneRaw") =>
       /\ rawTier = {r \in storeOp.before : r.timeMs >= storeOp.olderThanMs}
       /\ m1Tier = storeOp.before1m
       /\ storeOp.changes
            = Cardinality({r \in storeOp.before : r.timeMs < storeOp.olderThanMs})
  /\ (storeOp # Null /\ storeOp.op = "prune1m") =>
       /\ m1Tier = {r \in storeOp.before1m : r.bucketStartMs >= storeOp.olderThanMs}
       /\ rawTier = storeOp.before
       /\ storeOp.changes
            = Cardinality({r \in storeOp.before1m : r.bucketStartMs < storeOp.olderThanMs})

\* a raw prune that deleted one row and kept the row at the cutoff, with
\* rows in the rollup tier
C13_Witness ==
  /\ storeOp # Null
  /\ storeOp.op = "pruneRaw"
  /\ storeOp.changes = 1
  /\ \E r \in rawTier : r.timeMs = storeOp.olderThanMs
  /\ m1Tier # {}

RawKeys(tier) == {r.timeMs : r \in tier}
M1Keys(tier) == {r.bucketStartMs : r \in tier}
Horizon(retention, unitMs) == (IF retention < 1 THEN 1 ELSE retention) * unitMs

\* C14: the scheduler's prune uses rawCutoff = now - max(1, hours) * 3600000
\* and rollupCutoff = now - max(1, days) * 86400000: for every configured
\* retention, zero and negative ones included, no step of a tick removes a
\* raw row younger than 1 hour or a rollup row younger than 1 day; a row is
\* removed only by the prune and only if it is strictly older than its
\* tier's horizon at the tick's now, and a prune that completes removes
\* every such row.
C14_PruneKeepsYoungRows ==
  [][ \A i \in Ticks :
        LET goneRaw == {r \in rawTier : r.timeMs \notin RawKeys(rawTier')}
            gone1m == {r \in m1Tier : r.bucketStartMs \notin M1Keys(m1Tier')}
        IN IF tickPc[i] = "prune" /\ tickPc'[i] # "prune"
           THEN LET nowMs == tickNowMs[i][1]
                    rawHorizon == Horizon(METRICS_RAW_RETENTION_HOURS, HOUR_MS)
                    m1Horizon == Horizon(METRICS_1M_RETENTION_DAYS, DAY_MS)
                IN /\ \A r \in goneRaw :
                        nowMs - r.timeMs > rawHorizon /\ nowMs - r.timeMs > HOUR_MS
                   /\ \A r \in gone1m :
                        /\ nowMs - r.bucketStartMs > m1Horizon
                        /\ nowMs - r.bucketStartMs > DAY_MS
                   /\ lastPruneAtMs' # lastPruneAtMs =>
                        /\ rawTier' = {r \in rawTier : nowMs - r.timeMs <= rawHorizon}
                        /\ m1Tier' = {r \in m1Tier : nowMs - r.bucketStartMs <= m1Horizon}
           ELSE (\A j \in Ticks : tickPc[j] # "prune") => (goneRaw = {} /\ gone1m = {})
    ]_vars

\* a prune under a retention of zero or less that kept the raw row exactly
\* one hour old and the rollup row exactly one day old and deleted the older
\* rows
C14_Witness ==
  \E i \in Ticks :
    /\ tickPc[i] \in {"scan", "done"}
    /\ lastPruneAtMs = tickNowMs[i]
    /\ METRICS_RAW_RETENTION_HOURS < 1
    /\ METRICS_1M_RETENTION_DAYS < 1
    /\ \E r \in rawTier : r.timeMs = tickNowMs[i][1] - HOUR_MS
    /\ \E r \in m1Tier : r.bucketStartMs = tickNowMs[i][1] - DAY_MS
    /\ \A r \in rawTier : r.timeMs >= tickNowMs[i][1] - HOUR_MS
    /\ \A r \in m1Tier : r.bucketStartMs >= tickNowMs[i][1] - DAY_MS

\* C15: a tick runs the prune for both tiers and sets lastPruneAtMs to the
\* tick's now exactly when no prune has run yet in this process or at least
\* 10 minutes (600000 ms) have elapsed since lastPruneAtMs; in every other
\* tick neither tier is pruned and lastPruneAtMs is unchanged. (Stated for
\* the ticks whose prune step does not throw.)
C15_PrunesAtTenMinutes ==
  [][ \A i \in Ticks :
        (tickPc[i] = "prune" /\ tickPc'[i] \in {"scan", "done"}) =>
          LET nowMs == tickNowMs[i][1]
          IN IF lastPruneAtMs = Null \/ nowMs - lastPruneAtMs[1] >= PRUNE_EVERY_MS
             THEN /\ lastPruneAtMs' = Some(nowMs)
                  /\ rawTier' = DeleteRawOlderThan(rawTier,
                                  RawCutoff(nowMs, METRICS_RAW_RETENTION_HOURS))
                  /\ m1Tier' = Delete1mOlderThan(m1Tier,
                                 M1Cutoff(nowMs, METRICS_1M_RETENTION_DAYS))
             ELSE UNCHANGED <<rawTier, m1Tier, lastPruneAtMs>>
    ]_vars

\* C16: for any Store contents and any range, the samples of a /metrics.json
\* reply are ascending in timeMs, all rollup-tier items come before all
\* raw-tier items, and no timeMs occurs twice (a rollup row and a raw row
\* with the same timestamp at the tier boundary are never both returned).
C16_RangeQueryAscendingNoDuplicates ==
  metricsReply # Null =>
    LET s == metricsReply.samples
        k == metricsReply.rollupCount
    IN /\ \A i, j \in 1..Len(s) : i < j => s[i].timeMs <= s[j].timeMs
       /\ \A i \in 1..Len(s) :
            IF i <= k THEN s[i] \in {RollupSample(r) : r \in m1Tier}
            ELSE s[i] \in {RawSample(r) : r \in rawTier}
       /\ \A i, j \in 1..Len(s) : s[i].timeMs = s[j].timeMs => i = j

\* C17: the range query partitions time between the tiers: with
\* from = now - rangeHours * 3600000 and rawFrom = max(from, now - raw
\* retention), the rollup items are those of the rollup rows with
\* from <= bucketStartMs < rawFrom (half-open), fetched only when
\* from < rawFrom, and the raw items are those of the raw rows with
\* rawFrom <= timeMs <= now; when from >= rawFrom there is no rollup item.
\* (Raw retention is the clamped one, max(1, hours) hours.)
C17_RangeQueryPartition ==
  metricsReply # Null =>
    LET s == metricsReply.samples
        k == metricsReply.rollupCount
        nowMs == metricsReply.nowMs
        from == RangeFromMs(nowMs, metricsReply.rangeHours)
        rawFrom == Max2(from, nowMs - Horizon(METRICS_RAW_RETENTION_HOURS, HOUR_MS))
    IN /\ {s[i] : i \in 1..k}
            = {RollupSample(r) : r \in {q \in m1Tier : from <= q.bucketStartMs
                                                         /\ q.bucketStartMs < rawFrom}}
       /\ {s[i] : i \in (k + 1)..Len(s)}
            = {RawSample(r) : r \in {q \in rawTier : rawFrom <= q.timeMs
                                                      /\ q.timeMs <= nowMs}}
       /\ from >= rawFrom => k = 0

InRange(hours) == MIN_RANGE_HOURS <= hours /\ hours <= MAX_RANGE_HOURS

\* C18: the range used by the range query is the requested rangeHours
\* clamped to [0.25, 720] for every finite request value, and the configured
\* default when the parameter is absent or not finite (read for a default
\* that lies in [0.25, 720]); for every request the range used and reported
\* as rangeHours lies in [0.25, 720].
C18_RangeClampedOrDefault ==
  metricsReply # Null =>
    LET param == metricsReply.param
        requested == IF param = Null THEN Null ELSE ToNumber(param[1])
        hours == metricsReply.rangeHours
    IN /\ (requested # Null /\ IsFinite(requested)) =>
            hours = (IF requested[1] < MIN_RANGE_HOURS THEN MIN_RANGE_HOURS
                     ELSE IF requested[1] > MAX_RANGE_HOURS THEN MAX_RANGE_HOURS
                     ELSE requested[1])
       /\ ((requested = Null \/ ~IsFinite(requested))
             /\ InRange(METRICS_DEFAULT_RANGE_HOURS)) =>
            hours = METRICS_DEFAULT_RANGE_HOURS
       /\ InRange(hours)

\* the values of a field that are there
Present(raws, field) ==
  SelectSeq([i \in 1..Len(raws) |-> raws[i][field]], LAMBDA x : x # Null)

\* m is the arithmetic mean of the values vals, or absent when there is none
IsMeanOf(m, vals) ==
  IF Len(vals) = 0 THEN m = Null
  ELSE /\ m # Null
       /\ m[2] > 0
       /\ m[1] * Len(vals) = SumVals(vals) * m[2]

\* C19: compute1mRollup(bucketStartMs, raws) returns a row whose
\* bucketStartMs is the argument; cpuUsagePctAvg10s, cpuTempC and diskUsedPct
\* are each the arithmetic mean of the non-absent values of that field
\* among raws, or absent when there is none (an absent value never counts
\* as zero); memUsedPct is the mean of the rows' memUsedPct, or 0 when raws
\* is empty; the call changes no state.
C19_RollupIsMeanOfPresentValues ==
  (storeOp # Null /\ storeOp.op = "compute1mRollup" /\ storeOp.returned) =>
    LET raws == storeOp.raws
        res == storeOp.result
    IN /\ res.bucketStartMs = storeOp.bucketStartMs
       /\ IsMeanOf(res.cpuUsagePctAvg10s, Present(raws, "cpuUsagePctAvg10s"))
       /\ IsMeanOf(res.cpuTempC, Present(raws, "cpuTempC"))
       /\ IsMeanOf(res.diskUsedPct, Present(raws, "diskUsedPct"))
       /\ IF Len(raws) = 0 THEN res.memUsedPct = <<0, 1>>
          ELSE IsMeanOf(res.memUsedPct, Present(raws, "memUsedPct"))
       /\ rawTier = {} /\ m1Tier = {}

\* two rows, the temperature absent in one and 41 in the other: the mean is
\* 41, not 20.5; the disk reading is absent in both
C19_Witness ==
  /\ storeOp # Null
  /\ storeOp.op = "compute1mRollup"
  /\ storeOp.returned
  /\ Len(storeOp.raws) = 2
  /\ \E i \in 1..2 : storeOp.raws[i].cpuTempC = Null
  /\ storeOp.result.cpuTempC = <<41, 1>>
  /\ storeOp.result.diskUsedPct = Null
  /\ storeOp.raws[1].memUsedPct # storeOp.raws[2].memUsedPct

\* C20: floorToMinute is idempotent, its result is a multiple of 60000, and
\* floorToMinute(ms) <= ms < floorToMinute(ms) + 60000 for every integer ms.
C20_FloorToMinute ==
  (storeOp # Null /\ storeOp.op = "floorToMinute" /\ storeOp.returned) =>
    /\ storeOp.twice = storeOp.result
    /\ storeOp.result % MINUTE_MS = 0
    /\ storeOp.result <= storeOp.ms
    /\ storeOp.ms < storeOp.result + MINUTE_MS

\* a negative time that is not on a minute
C20_Witness ==
  /\ storeOp # Null
  /\ storeOp.op = "floorToMinute"
  /\ storeOp.returned
  /\ storeOp.ms < 0
  /\ storeOp.result < storeOp.ms

\* C21: the rollup tier never holds two rows for one bucket, and when a
\* restarted process rolls up a bucket that an earlier rollup already wrote,
\* from the same raw rows, the stored rollup row is the same after the
\* overwrite as before it.
RowsOfBucket(tier, bucket) == {r \in tier : r.bucketStartMs = bucket}

C21_RollupUpsertIdempotent ==
  [][/\ \A r, q \in m1Tier' : r.bucketStartMs = q.bucketStartMs => r = q
     /\ Len(rollupLog') = Len(rollupLog) + 1 =>
          LET e == rollupLog'[Len(rollupLog')]
          IN \A k \in 1..Len(rollupLog) :
               (rollupLog[k].bucket = e.bucket /\ rollupLog[k].raws = e.raws)
                 => /\ RowsOfBucket(m1Tier, e.bucket) # {}
                    /\ RowsOfBucket(m1Tier', e.bucket) = RowsOfBucket(m1Tier, e.bucket)]_vars

\* The restarted process has rolled up the bucket of the earlier process
\* again, from unchanged raw rows.
C21_Witness ==
  /\ Len(rollupLog) = 2
  /\ rollupLog[1].tick = 0
  /\ rollupLog[2].tick > 0
  /\ rollupLog[2].bucket = rollupLog[1].bucket
  /\ rollupLog[2].raws = rollupLog[1].raws
  /\ Len(rollupLog[2].raws) > 0
  /\ RowsOfBucket(m1Tier, rollupLog[2].bucket) # {}

\* C22: every sample held in the in-memory ring buffer has timeMs within
\* 3600000 ms of the newest sample in the buffer, whatever the accepted
\* sampling interval.
C22_HistorySpansAtMostOneHour ==
  \A j \in 1..Len(metricsHistory) :
    metricsHistory[Len(metricsHistory)].timeMs - metricsHistory[j].timeMs <= HOUR_MS

\* C23: the period of the sampler's timer is the configured interval clamped
\* to a minimum of 1000 ms: a finite value of at least 1000 is used as is, a
\* finite value below 1000 yields 1000, a non-finite value yields a safe
\* default, and the period is at least 1000 ms in every case.
TimerPeriod == timerDueMs - now

C23_IntervalClampedTo1000 ==
  proc.metricsSamplerStarted =>
    /\ (IsFinite(METRICS_INTERVAL_MS) /\ METRICS_INTERVAL_MS[1] >= MIN_INTERVAL_MS)
         => TimerPeriod = METRICS_INTERVAL_MS[1]
    /\ (IsFinite(METRICS_INTERVAL_MS) /\ METRICS_INTERVAL_MS[1] < MIN_INTERVAL_MS)
         => TimerPeriod = MIN_INTERVAL_MS
    /\ TimerPeriod >= MIN_INTERVAL_MS

\* C23 as the code has it: the delay handed to setInterval is the configured
\* interval when that is finite and at least 1000, and the default of 5000 ms
\* otherwise (a finite value below 1000 included); it is at least 1000 ms in
\* every case.
C23_IntervalOrDefault ==
  proc.metricsSamplerStarted =>
    /\ (IsFinite(METRICS_INTERVAL_MS) /\ METRICS_INTERVAL_MS[1] >= MIN_INTERVAL_MS)
         => TimerPeriod = METRICS_INTERVAL_MS[1]
    /\ (IsFinite(METRICS_INTERVAL_MS) /\ METRICS_INTERVAL_MS[1] < MIN_INTERVAL_MS)
         => TimerPeriod = DEFAULT_INTERVAL_MS
    /\ ~IsFinite(METRICS_INTERVAL_MS) => TimerPeriod = DEFAULT_INTERVAL_MS
    /\ TimerPeriod >= MIN_INTERVAL_MS

\* The sampler was started with a configured interval below the minimum.
C23_Witness ==
  /\ proc.metricsSamplerStarted
  /\ timerArmed
  /\ IsFinite(METRICS_INTERVAL_MS)
  /\ METRICS_INTERVAL_MS[1] < MIN_INTERVAL_MS
  /\ METRICS_INTERVAL_MS[1] > 0

\* C24: every exception raised during a tick (collection, flush, rollup or
\* prune) is reported to the log before it is swallowed: a tick that ended
\* in the catch has left a log event.
LoggedTick(i) ==
  \E k \in 1..Len(appLog) : appLog[k].error = <<"tick", i>>

C24_TickFailureIsLogged ==
  \A i \in Ticks : tickPc[i] \in Caught => LoggedTick(i)

\* C25: on shutdown the sampling timer is cancelled, the samples still in
\* the pending batch are flushed to the Store and the Store is closed; no
\* tick runs against the Store after it has been closed.
C25_ShutdownFlushesAndCloses ==
  /\ proc.phase = "exited" =>
       /\ ~timerArmed
       /\ pendingRawBatch = <<>>
       /\ proc.closes = 1
  /\ proc.closes > 0 => running = 0

\* C26: a failure to open the Store at startup is fatal. When the creation
\* of the directory or openDb has failed, the process has exited with a
\* non-zero code and the error is on stderr, openDb was called at most once,
\* the sampler was never started (no timer armed, no tick begun) and no
\* request was answered.
StoreOpenFailed == proc.failure \in {Some("mkdir"), Some("openDb")}

C26_StoreOpenFailureIsFatal ==
  StoreOpenFailed =>
    /\ proc.phase = "exited"
    /\ proc.exitCode = Some(1)
    /\ \E k \in 1..Len(appLog) : appLog[k] = [stream |-> "stderr", error |-> proc.failure]
    /\ proc.opens <= 1
    /\ ~proc.metricsSamplerStarted
    /\ ~timerArmed
    /\ nextTick = 1
    /\ ~proc.handled
    /\ proc.reply = Null

\* openDb threw on a path whose directory was created.
C26_Witness ==
  /\ proc.failure = Some("openDb")
  /\ proc.dbPath = "dir"
  /\ proc.opens = 1

\* C27: a range query that runs between the steps of the sampler never sees
\* a batch half written or a prune half done. When a reply is made, no tick
\* is between the start of its flush and the end of its prune, the reply
\* changes nothing in the Store, and the raw rows of the reply are the rows
\* the raw tier holds in the queried range at that instant.
MidWrite == {"flush", "rollup", "prune"}

RawPart(r) == SubSeq(r.samples, r.rollupCount + 1, Len(r.samples))

CommittedRawPart(r) ==
  LET fromMs == RangeFromMs(r.nowMs, r.rangeHours)
      rawFromMs == RawFromMs(fromMs, r.nowMs, METRICS_RAW_RETENTION_HOURS)
      rows == SelectRawRange(rawTier, rawFromMs, r.nowMs)
  IN [k \in 1..Len(rows) |-> RawSample(rows[k])]

C27_QuerySeesCommittedRows ==
  [][metricsReply' # metricsReply =>
       /\ \A i \in Ticks : tickPc[i] \notin MidWrite
       /\ running = 0
       /\ rawTier' = rawTier /\ m1Tier' = m1Tier /\ pendingRawBatch' = pendingRawBatch
       /\ metricsReply'.nowMs = now
       /\ RawPart(metricsReply') = CommittedRawPart(metricsReply')]_vars

\* A reply with a row that a tick has written, made while a tick that began
\* earlier was still waiting for its status.
C27_Witness ==
  /\ metricsReply # Null
  /\ \E i \in Ticks : tickPc[i] = "collect" /\ tickTimeMs[i] < metricsReply.nowMs
  /\ \E j \in Ticks :
       /\ tickPc[j] \in PastFlush
       /\ tickSample[j] # Null
       /\ RawSample(tickSample[j]) \in Range(RawPart(metricsReply))

\* C28: decideNotify applies its rules in this order, for every input:
\* 'initial-skip' (no notification) when skipInitial is true and prevHealth
\* is null; otherwise 'no-change' (no notification) when prevHealth equals
\* nextHealth; otherwise 'rate-limited' (no notification) when
\* lastNotifiedAtMs is set and nowMs - lastNotifiedAtMs < minIntervalMs;
\* otherwise a notification with reason 'state-changed'.
InitialRule(input) == input.skipInitial /\ input.prevHealth = Null

NoChangeRule(input) ==
  input.prevHealth # Null /\ input.prevHealth[1] = input.nextHealth

RateLimitRule(input) ==
  /\ input.lastNotifiedAtMs # Null
  /\ input.nowMs - input.lastNotifiedAtMs[1] < input.minIntervalMs

C28_DecideNotifyRulesInOrder ==
  (storeOp # Null /\ storeOp.op = "decideNotify" /\ storeOp.returned) =>
    LET input == storeOp.input
        d == storeOp.result
    IN /\ InitialRule(input) => d = [shouldNotify |-> FALSE, reason |-> "initial-skip"]
       /\ (~InitialRule(input) /\ NoChangeRule(input))
            => d = [shouldNotify |-> FALSE, reason |-> "no-change"]
       /\ (~InitialRule(input) /\ ~NoChangeRule(input) /\ RateLimitRule(input))
            => d = [shouldNotify |-> FALSE, reason |-> "rate-limited"]
       /\ (~InitialRule(input) /\ ~NoChangeRule(input) /\ ~RateLimitRule(input))
            => d = [shouldNotify |-> TRUE, reason |-> "state-changed"]

\* A call where the health is unchanged inside the rate limit has returned:
\* both rules apply and the earlier one gives the reason.
C28_Witness ==
  /\ storeOp # Null /\ storeOp.op = "decideNotify" /\ storeOp.returned
  /\ ~InitialRule(storeOp.input)
  /\ NoChangeRule(storeOp.input)
  /\ RateLimitRule(storeOp.input)
  /\ storeOp.result.reason = "no-change"

\* C29: verifyToken(req, expected) is true exactly when the provided token
\* equals expected, the provided token being the first non-blank one,
\* trimmed, among the query parameter token, the Authorization header of the
\* form 'Bearer <token>' (scheme in any case) and the X-Status-Token header,
\* in that order; it is false when no token is provided; and
\* constantTimeEqual(a, b) is true exactly when a and b are the same string.
\* The value a request carries in each of the three places (blank where it
\* carries none there): the X-Status-Token header is the header under its
\* lower-case name when present, under its capitalised name otherwise.
QueryCandidate(req) ==
  IF req.query.token.type = "string" THEN req.query.token.chars ELSE <<>>

BearerCandidate(req) ==
  LET a == req.headers.authorization
  IN IF a.type = "string" /\ Len(a.chars) >= 7
        /\ [k \in 1..6 |-> IF a.chars[k] = "B" THEN "b" ELSE a.chars[k]]
             = <<"b", "e", "a", "r", "e", "r">>
        /\ a.chars[7] = " "
     THEN SubSeq(a.chars, 7, Len(a.chars))
     ELSE <<>>

HeaderCandidate(req) ==
  LET x == IF req.headers.xStatusToken.type = "undefined" THEN req.headers.XStatusToken
           ELSE req.headers.xStatusToken
  IN IF x.type = "string" THEN x.chars ELSE <<>>

Blank(str) == \A k \in 1..Len(str) : str[k] = " "

Trimmed(str) ==
  IF Blank(str) THEN <<>>
  ELSE LET first == CHOOSE k \in 1..Len(str) :
                      str[k] # " " /\ \A j \in 1..(k - 1) : str[j] = " "
           last == CHOOSE k \in 1..Len(str) :
                     str[k] # " " /\ \A j \in (k + 1)..Len(str) : str[j] = " "
       IN SubSeq(str, first, last)

\* the first non-blank candidate, trimmed; <<>> when every candidate is blank
FirstNonBlank(req) ==
  LET cands == <<QueryCandidate(req), BearerCandidate(req), HeaderCandidate(req)>>
  IN IF \A k \in 1..3 : Blank(cands[k]) THEN <<>>
     ELSE Trimmed(cands[CHOOSE k \in 1..3 :
                          ~Blank(cands[k]) /\ \A j \in 1..(k - 1) : Blank(cands[j])])

C29_VerifyTokenMatchesProvided ==
  /\ (storeOp # Null /\ storeOp.op = "verifyToken" /\ storeOp.returned) =>
       (storeOp.result <=>
          (FirstNonBlank(storeOp.req) # <<>>
             /\ FirstNonBlank(storeOp.req) = storeOp.expectedToken))
  /\ (storeOp # Null /\ storeOp.op = "constantTimeEqual" /\ storeOp.returned) =>
       (storeOp.result <=> storeOp.a = storeOp.b)

\* verifyToken returned true for a request whose query token is blank and
\* whose token came, padded, with the scheme written "bearer".
C29_Witness ==
  /\ storeOp # Null /\ storeOp.op = "verifyToken" /\ storeOp.returned
  /\ storeOp.result
  /\ storeOp.req.query.token = StringValue(<<" ">>)
  /\ storeOp.req.headers.authorization
       = StringValue(<<"b", "e", "a", "r", "e", "r", " ", " ", "t", " ">>)
  /\ storeOp.req.headers.xStatusToken = StringValue(<<"T">>)

\* C30: when STATUS_TOKEN is set to a non-blank value, every request that
\* does not provide exactly that token is answered 401 and receives no
\* status, health or metrics data, and every request that provides it is
\* served; when STATUS_TOKEN is unset or blank no request is rejected. The
\* token is the value of STATUS_TOKEN trimmed, and the token a request
\* provides is the one of C29.
StatusTokenChars ==
  IF proc.statusToken.type = "string" THEN proc.statusToken.chars ELSE <<>>

Unauthorized == {"401 html", "401 json"}

C30_TokenGuardsEveryRoute ==
  proc.reply # Null =>
    LET r == proc.reply[1]
        enabled == ~Blank(StatusTokenChars)
        provides == FirstNonBlank(r.req) = Trimmed(StatusTokenChars)
    IN /\ (enabled /\ ~provides) => (r.code = 401 /\ r.body \in Unauthorized)
       /\ (enabled /\ provides) => (r.code = 200 /\ r.body = RouteData(r.route))
       /\ ~enabled => (r.code = 200 /\ r.body = RouteData(r.route))

\* With STATUS_TOKEN=" t ", a request for /status.json with ?token=x was
\* answered before any request had been served.
C30_Witness ==
  /\ proc.reply # Null
  /\ proc.statusToken = StringValue(<<" ", "t", " ">>)
  /\ proc.reply[1].route = "/status.json"
  /\ proc.reply[1].req.query.token = StringValue(<<"x">>)
  /\ proc.reply[1].code = 401
  /\ ~proc.handled

\* C31: when CLAWDBOT_SERVICE is set the verdict is degraded whenever the
\* state of the unit is not 'active', and the process patterns have no
\* influence on the verdict; when it is not set and
\* CLAWDBOT_PROCESS_PATTERNS is, the verdict is degraded whenever at least
\* one pattern has no matching process; when neither is set the liveness
\* checks never degrade the verdict.
ServiceSet(input) ==
  input.service.type = "string" /\ ~Blank(input.service.chars)

PatternsOf(input) ==
  IF input.patterns.type = "string" THEN SplitPatterns(input.patterns.chars, <<>>)
  ELSE <<>>

C31_LivenessChecks ==
  (storeOp # Null /\ storeOp.op = "collectStatus" /\ storeOp.returned) =>
    LET input == storeOp.input
        liveness == storeOp.trail[1]
    IN /\ ServiceSet(input) =>
            /\ input.state # "active" => storeOp.health = "degraded"
            /\ \A patterns \in PatternsChoices, matching \in SUBSET {<<"a">>, <<"b">>} :
                 LET other == HealthTrail([input EXCEPT !.patterns = patterns,
                                                        !.matching = matching],
                                          lastDmesgErrorSummary, now)
                 IN other = storeOp.trail
       /\ (~ServiceSet(input) /\ PatternsOf(input) # <<>>) =>
            ((\E k \in 1..Len(PatternsOf(input)) : PatternsOf(input)[k] \notin input.matching)
               => storeOp.health = "degraded")
       /\ (~ServiceSet(input) /\ PatternsOf(input) = <<>>) => liveness = Healthy

\* The unit is active, a pattern is configured and no process matches it.
C31_Witness ==
  /\ storeOp # Null /\ storeOp.op = "collectStatus" /\ storeOp.returned
  /\ ServiceSet(storeOp.input)
  /\ storeOp.input.state = "active"
  /\ storeOp.input.patterns = StringValue(<<"a", ",", " ", "b">>)
  /\ storeOp.input.matching = {<<"a">>}
  /\ storeOp.trail[1] = Healthy

\* C32: every cpuUsagePctInstant reading is absent or a value in [0,100];
\* it is absent on the first reading after the start of the process and
\* whenever less than 250 ms have passed since the previous reading, by
\* whichever caller (they share one baseline); and each reading that parses
\* /proc/stat replaces the baseline, even when it returns absent.
CpuReading == storeOp # Null /\ storeOp.op = "getCpuUsagePctInstant"

C32_CpuUsageInstant ==
  CpuReading =>
    /\ storeOp.result # Null =>
         /\ storeOp.result[2] > 0
         /\ 0 <= storeOp.result[1]
         /\ storeOp.result[1] <= 100 * storeOp.result[2]
    /\ storeOp.prev = Null => storeOp.result = Null
    /\ (storeOp.prev # Null /\ storeOp.nowMs - storeOp.prev[1].timeMs < 250)
         => storeOp.result = Null
    /\ storeOp.stat # Null =>
         proc.lastProcStat = Some([timeMs |-> storeOp.nowMs, total |-> storeOp.stat[1].total,
                                   idle |-> storeOp.stat[1].idle])
    /\ storeOp.stat = Null => (storeOp.result = Null /\ proc.lastProcStat = storeOp.prev)

\* A request read /proc/stat 249 ms after the baseline was taken: absent,
\* with counters that would have given a value.
C32_Witness ==
  /\ CpuReading
  /\ storeOp.caller = "request"
  /\ storeOp.prev # Null
  /\ storeOp.nowMs - storeOp.prev[1].timeMs = 249
  /\ storeOp.stat # Null
  /\ storeOp.stat[1].total > storeOp.prev[1].total
  /\ storeOp.result = Null

\* C33: the watermarks advance only after their action succeeded.
\* lastRollupBucketStartMs becomes B only in a rollup step that has upserted
\* the row of B, and lastPruneAtMs is set only in a prune step where pruneRaw
\* and prune1m both returned; a tick that throws in its collection or in its
\* flush changes neither watermark; a rollup step never changes
\* lastPruneAtMs and a prune step never lastRollupBucketStartMs.
StepOf(i, from) == tickPc[i] = from /\ tickPc'[i] # from

C33_WatermarksFollowSuccess ==
  [][/\ lastRollupBucketStartMs' # lastRollupBucketStartMs =>
          \E i \in Ticks :
            /\ StepOf(i, "rollup")
            /\ tickPc'[i] \notin Caught
            /\ \E row \in m1Tier' : row.bucketStartMs = lastRollupBucketStartMs'[1]
            /\ Len(rollupLog') = Len(rollupLog) + 1
            /\ rollupLog'[Len(rollupLog')].bucket = lastRollupBucketStartMs'[1]
     /\ lastPruneAtMs' # lastPruneAtMs =>
          \E i \in Ticks :
            /\ StepOf(i, "prune")
            /\ tickPc'[i] \notin Caught
            /\ lastPruneAtMs' = tickNowMs[i]
            /\ \A row \in rawTier' :
                 row.timeMs >= tickNowMs[i][1] - Max2(1, METRICS_RAW_RETENTION_HOURS) * HOUR_MS
            /\ \A row \in m1Tier' :
                 row.bucketStartMs
                   >= tickNowMs[i][1] - Max2(1, METRICS_1M_RETENTION_DAYS) * DAY_MS
     /\ \A i \in Ticks :
          /\ (StepOf(i, "collect") /\ tickPc'[i] = "collectThrew")
               => UNCHANGED <<lastRollupBucketStartMs, lastPruneAtMs>>
          /\ (StepOf(i, "flush") /\ tickPc'[i] = "flushThrew")
               => UNCHANGED <<lastRollupBucketStartMs, lastPruneAtMs>>
          /\ (StepOf(i, "rollup") /\ tickPc'[i] = "rollupThrew")
               => UNCHANGED <<lastRollupBucketStartMs, lastPruneAtMs>>
          /\ (StepOf(i, "prune") /\ tickPc'[i] = "pruneThrew")
               => UNCHANGED <<lastRollupBucketStartMs, lastPruneAtMs>>
          /\ StepOf(i, "rollup") => UNCHANGED lastPruneAtMs
          /\ StepOf(i, "prune") => UNCHANGED lastRollupBucketStartMs]_vars

\* A tick rolled a bucket up and then threw in its prune, and an earlier
\* tick had thrown in its flush: one watermark set, the other not.
C33_Witness ==
  /\ tickPc[1] = "flushThrew"
  /\ tickPc[2] = "pruneThrew"
  /\ lastRollupBucketStartMs # Null
  /\ lastPruneAtMs = Null

\* C34: in every reachable state lastRollupBucketStartMs is unset or a
\* multiple of 60000, every rollup row written by the scheduler has a
\* bucketStartMs that is a multiple of 60000, and neither
\* lastRollupBucketStartMs nor lastPruneAtMs ever decreases (or is unset
\* again), whatever the clock readings, the failures and the interleavings.
NotBefore(old, new) == old # Null => (new # Null /\ new[1] >= old[1])

C34_WatermarksAlignedAndMonotonic ==
  /\ [](/\ lastRollupBucketStartMs # Null => lastRollupBucketStartMs[1] % 60000 = 0
        /\ \A k \in 1..Len(rollupLog) : rollupLog[k].bucket % 60000 = 0)
  /\ [][/\ NotBefore(lastRollupBucketStartMs, lastRollupBucketStartMs')
        /\ NotBefore(lastPruneAtMs, lastPruneAtMs')]_vars

\* A tick went through its rollup and prune steps while the watermarks lay
\* ahead of its clock reading.
C34_Witness ==
  /\ \E i \in Ticks :
       /\ tickPc[i] = "done"
       /\ tickNowMs[i] # Null
       /\ lastRollupBucketStartMs # Null
       /\ lastRollupBucketStartMs[1] > RollupBucket(tickNowMs[i][1])
       /\ lastPruneAtMs # Null
       /\ lastPruneAtMs[1] > tickNowMs[i][1]

\* C35: when the closed bucket a tick selects holds no raw row in the Store,
\* the tick still upserts a rollup row for that bucket, with
\* cpuUsagePctAvg10s, cpuTempC and diskUsedPct absent and memUsedPct equal
\* to 0, and advances lastRollupBucketStartMs to the bucket.
EmptyBucketRow(bucket) ==
  [bucketStartMs |-> bucket, cpuUsagePctAvg10s |-> Null, cpuTempC |-> Null,
   diskUsedPct |-> Null, memUsedPct |-> <<0, 1>>]

RawRowsIn(bucket) ==
  {row \in rawTier : bucket <= row.timeMs /\ row.timeMs <= bucket + 59999}

C35_EmptyBucketIsRolledUp ==
  [][\A i \in Ticks :
       LET bucket == ((now - 60000) \div 60000) * 60000
       IN (/\ StepOf(i, "rollup")
           /\ tickPc'[i] \notin Caught
           /\ lastRollupBucketStartMs = Null \/ bucket > lastRollupBucketStartMs[1]
           /\ RawRowsIn(bucket) = {})
          => /\ EmptyBucketRow(bucket) \in m1Tier'
             /\ \A row \in m1Tier' :
                  row.bucketStartMs = bucket => row = EmptyBucketRow(bucket)
             /\ lastRollupBucketStartMs' = Some(bucket)]_vars

\* The first tick after a start that followed downtime has rolled up the
\* minute before it, in which the Store holds no row.
C35_Witness ==
  /\ Len(rollupLog) = 1
  /\ rollupLog[1].raws = <<>>
  /\ rawTier # {}
  /\ EmptyBucketRow(rollupLog[1].bucket) \in m1Tier
  /\ lastRollupBucketStartMs = Some(rollupLog[1].bucket)

\* C36: after any sequence of ticks the in-memory history holds at most 720
\* samples, and they are exactly the most recent samples collected by the
\* ticks, in the order of their collection: a tick whose collection returns
\* appends its sample and the oldest samples beyond 720 are dropped, a tick
\* whose collection fails adds nothing to the history or to the pending
\* batch, and no other step changes the history.
Latest(h, n) == IF Len(h) > n THEN [k \in 1..n |-> h[Len(h) - n + k]] ELSE h

C36_HistoryHoldsLatestSamples ==
  /\ [](Len(metricsHistory) <= 720)
  /\ [][\A i \in Ticks :
          /\ (StepOf(i, "collect") /\ tickPc'[i] # "collectThrew")
               => metricsHistory' = Latest(metricsHistory \o <<tickSample'[i]>>, 720)
          /\ (StepOf(i, "collect") /\ tickPc'[i] = "collectThrew")
               => UNCHANGED <<metricsHistory, pendingRawBatch>>
          /\ (\A j \in Ticks : ~StepOf(j, "collect")) => UNCHANGED metricsHistory]_vars

\* The history was full and a tick has pushed its sample: the oldest sample
\* is gone and the new one is last.
C36_Witness ==
  /\ Len(metricsHistory) = 720
  /\ \E i \in Ticks :
       /\ tickSample[i] # Null
       /\ metricsHistory[720] = tickSample[i]
       /\ metricsHistory[1].timeMs > now - 720 * 5000

\* C37: the health returned by collectStatus is 'ok' exactly when its list
\* of notes is empty and 'degraded' exactly when at least one note was
\* added; it is never 'down'; and once a check has degraded the verdict no
\* later check of the same evaluation sets it back to 'ok'.
C37_HealthFollowsNotes ==
  (storeOp # Null /\ storeOp.op = "collectStatus" /\ storeOp.returned) =>
    /\ storeOp.health = "ok" <=> Len(storeOp.notes) = 0
    /\ storeOp.health = "degraded" <=> Len(storeOp.notes) >= 1
    /\ storeOp.health # "down"
    /\ \A k \in 1..(Len(storeOp.trail) - 1) :
         /\ storeOp.trail[k].health = "degraded" => storeOp.trail[k + 1].health = "degraded"
         /\ Len(storeOp.trail[k].notes) <= Len(storeOp.trail[k + 1].notes)

\* The liveness check degraded the verdict, the memory check after it
\* found nothing and a later check added a second note.
C37_Witness ==
  /\ storeOp # Null /\ storeOp.op = "collectStatus" /\ storeOp.returned
  /\ storeOp.trail[1].health = "degraded"
  /\ storeOp.trail[2] = storeOp.trail[1]
  /\ Len(storeOp.notes) >= 2
  /\ storeOp.health = "degraded"

\* C38: serving GET /, /health.json, /status.json or /metrics.json leaves
\* both tiers of the Store, the pending batch, the in-memory history,
\* lastRollupBucketStartMs and lastPruneAtMs as they were; whenever one of
\* them changes, the step is a step of a sampler tick.
TimeSeries ==
  <<rawTier, m1Tier, pendingRawBatch, metricsHistory, lastRollupBucketStartMs,
    lastPruneAtMs>>

C38_RequestsNeverWrite ==
  [][/\ (proc' # proc \/ metricsReply' # metricsReply) => TimeSeries' = TimeSeries
     /\ TimeSeries' # TimeSeries => \E i \in Ticks : tickPc'[i] # tickPc[i]]_vars

\* A status request and a metrics request answered by a process whose ticks
\* have written: the metrics reply shows a row of a tick, the history and
\* the pending batch hold samples and a bucket was rolled up.
C38_Witness ==
  /\ proc.reply # Null
  /\ proc.reply[1].route = "/status.json"
  /\ metricsReply # Null
  /\ \E j \in Ticks :
       /\ tickSample[j] # Null
       /\ RawSample(tickSample[j]) \in Range(RawPart(metricsReply))
  /\ Len(metricsHistory) > 0
  /\ Len(pendingRawBatch) > 0
  /\ lastRollupBucketStartMs # Null

\* C39: lastDmesgErrorSummary is written only when a scan that found errors
\* returns, and no clean, failed or disabled scan clears it; a health
\* evaluation at time t is degraded with a dmesg note when some scan started
\* at a time T with t - T < 15 minutes has found errors, and it carries the
\* dmesg note only then.
Findings == {k \in 1..Len(scanLog) : scanLog[k].found}

FreshFindings(t) == {k \in Findings : t - scanLog[k].atMs < DMESG_WINDOW_MS}

DmesgNoted(notes) == \E k \in 1..Len(notes) : notes[k].check = "dmesg"

C39_DmesgFindingLasts ==
  [][/\ lastDmesgErrorSummary' # lastDmesgErrorSummary =>
          /\ Len(scanLog') = Len(scanLog) + 1
          /\ scanLog'[Len(scanLog')].found
          /\ lastDmesgErrorSummary' = Some(scanLog'[Len(scanLog')].atMs)
     /\ (storeOp' # storeOp /\ storeOp'.op = "collectStatus") =>
          /\ storeOp'.nowMs = now
          /\ FreshFindings(now) # {} =>
               storeOp'.health = "degraded" /\ DmesgNoted(storeOp'.notes)
          /\ DmesgNoted(storeOp'.notes) => FreshFindings(now) # {}]_vars

\* A scan found errors, a later scan found none, and an evaluation one
\* millisecond before the end of the window of the finding, with every probe
\* well, is degraded by the dmesg note alone.
C39_Witness ==
  /\ Len(scanLog) = 2
  /\ scanLog[1].found /\ ~scanLog[2].found
  /\ storeOp # Null /\ storeOp.op = "collectStatus"
  /\ storeOp.nowMs = scanLog[1].atMs + DMESG_WINDOW_MS - 1
  /\ scanLog[2].atMs <= storeOp.nowMs
  /\ storeOp.input.service = Undefined
  /\ storeOp.health = "degraded"
  /\ Len(storeOp.notes) = 1
  /\ DmesgNoted(storeOp.notes)

\* C40: under a sampler whose ticks keep completing without error, a raw
\* row older than the raw retention horizon and a rollup row older than the
\* rollup horizon are eventually deleted (as long as the run goes on: the
\* clock has a leap left); and right after a prune that succeeded at time T
\* the Store holds no raw row with timeMs < T - max(1, hours) * 3600000 and
\* no rollup row with bucketStartMs < T - max(1, days) * 86400000.
RawHorizonMs == (IF METRICS_RAW_RETENTION_HOURS > 1 THEN METRICS_RAW_RETENTION_HOURS ELSE 1) * 3600000

RollupHorizonMs == (IF METRICS_1M_RETENTION_DAYS > 1 THEN METRICS_1M_RETENTION_DAYS ELSE 1) * 86400000

LeapLeft == now + PRUNE_EVERY_MS + 1 <= bootMs + DEFAULT_INTERVAL_MS + MaxLeaps * DMESG_WINDOW_MS

GrowthRaws == UNION {GrowthRawRows(BootBaseMs, h) : h \in GrowthRetentionChoices}

Growth1ms == UNION {Growth1mRows(BootBaseMs, d) : d \in GrowthRetentionChoices}

C40_StorageGrowthBounded ==
  /\ [][lastPruneAtMs' # lastPruneAtMs =>
         LET T == lastPruneAtMs'[1]
         IN /\ \A r \in rawTier' : ~(r.timeMs < T - RawHorizonMs)
            /\ \A m \in m1Tier' : ~(m.bucketStartMs < T - RollupHorizonMs)]_vars
  /\ \A r \in GrowthRaws :
       (r \in rawTier /\ r.timeMs < now - RawHorizonMs /\ LeapLeft) ~> (r \notin rawTier)
  /\ \A m \in Growth1ms :
       (m \in m1Tier /\ m.bucketStartMs < now - RollupHorizonMs /\ LeapLeft)
         ~> (m \notin m1Tier)

\* A second prune has run: the rows that were past their horizons at the
\* start are gone, and so are the rows that passed them during the run,
\* while a raw row written by a tick is kept.
C40_Witness ==
  /\ lastPruneAtMs # Null
  /\ lastPruneAtMs[1] >= bootMs + 2 * (PRUNE_EVERY_MS + 1)
  /\ \E r \in GrowthRawRows(bootMs, METRICS_RAW_RETENTION_HOURS) :
       /\ r \notin rawTier
       /\ ~(r.timeMs < bootMs - RawHorizonMs)
  /\ \E m \in Growth1mRows(bootMs, METRICS_1M_RETENTION_DAYS) :
       /\ m \notin m1Tier
       /\ ~(m.bucketStartMs < bootMs - RollupHorizonMs)
  /\ \E r \in rawTier : r.timeMs > bootMs
====
